---------------------------- MODULE Spec2Model ----------------------------
(***************************************************************************)
(* Model of the eureqai evaluation / aggregation engine.                   *)
(*                                                                         *)
(* One evaluator instance (a subclass of BaseEvaluator) is modelled: its   *)
(* requirement registry, its result store (self.results), its logger and   *)
(* the last method call made on it (name, argument, returned value or      *)
(* raised exception).  A second evaluator instance (peer), numpy's global  *)
(* random generator and the running call of BaseMetrics.bootstrap_metric   *)
(* complete the state.                                                     *)
(*                                                                         *)
(* Numbers.  Python floats are modelled as IEEE 754 binary64 values, and   *)
(* every arithmetic operation rounds as the code's does.                   *)
(***************************************************************************)
EXTENDS Integers, Sequences, FiniteSets, TLC

VARIABLES
    kind,          \* class of the evaluator instance
    requirements,  \* self.requirements
    results,       \* self.results, the Result Store
    logged,        \* records emitted through self.logger
    op,            \* name of the last method called on the instance
    arg,           \* argument of that call
    ret,           \* its outcome: [status, value]
    results_id,    \* identity of the list object bound to self.results
    peer,          \* a second evaluator instance of the same process
    rng,           \* state of numpy's global random generator
    frame          \* locals of the running bootstrap_metric call

vars ==
    <<kind, requirements, results, logged, op, arg, ret, results_id, peer, rng,
      frame>>

(***************************************************************************)
(* Bounds of the model.                                                    *)
(***************************************************************************)
MaxStore == 3       \* longest store drawn for the aggregation functions
MaxResults == 4     \* evaluate is not called once the store would exceed this
MaxResponses == 2   \* longest list of responses passed to evaluate
MaxFields == 2      \* longest list of collected fields passed to evaluate
MaxCustomReqs == 2  \* longest registry of a user-defined evaluator
MaxSamples == 3     \* longest array of values passed to a metric function
MaxBootstrap == 2   \* largest n_bootstrap passed to bootstrap_metric
MaxDraws == 1       \* np.random.rand() calls a seeded generator serves
MaxPeerResults == 2 \* the second instance's evaluate is not called beyond this
MaxCalls == 4       \* evaluate calls made on the evaluator as shipped

(***************************************************************************)
(* Python float arithmetic: IEEE 754 binary64, round to nearest, ties to   *)
(* even.  A finite float is (-1)^sign * mant * 2^exp, where mant is an     *)
(* integer of 56 bits written as four limbs of 14 bits, lowest limb first: *)
(* the 53 bits of the significand followed by three zero bits (zero has    *)
(* mant = 0 and exp = 0).  Every operation computes the exact result to 56 *)
(* bits, the last one standing for everything below it, and rounds it to   *)
(* 53 bits.  Exponents are not limited: no input of the model overflows or *)
(* reaches the subnormal range.                                            *)
(***************************************************************************)
\* TwoTo[k + 1] = 2^k
TwoTo == <<1, 2, 4, 8, 16, 32, 64, 128, 256, 512, 1024, 2048, 4096, 8192, 16384>>

\* a limb holds 14 bits
Base == TwoTo[15]

Pow2(k) == TwoTo[k + 1]

Float(sign, exp, mant) == [nan |-> FALSE, sign |-> sign, exp |-> exp, mant |-> mant]

NaN == [nan |-> TRUE, sign |-> 0, exp |-> 0, mant |-> <<0, 0, 0, 0>>]

IsNaN(x) == x.nan

IsZero(x) == ~x.nan /\ x.mant = <<0, 0, 0, 0>>

Limb(m, i) == IF i \in DOMAIN m THEN m[i] ELSE 0

\* the limbs, from limb i on, of the integer whose limb k holds c[k], an
\* integer of any size and sign, with carry added at limb i; the last element
\* is what is left above limb Len(c), negative for a negative integer
RECURSIVE Carry(_, _, _)
Carry(c, i, carry) ==
    IF i > Len(c) THEN <<carry>>
    ELSE LET v == c[i] + carry
         IN  <<v % Base>> \o Carry(c, i + 1, v \div Base)

\* number of bits of a natural number below 2^14
LimbBits(v) == Cardinality({k \in 0..13 : Pow2(k) <= v})

\* the highest limb of m that is not 0; 0 for m = 0
TopLimb(m) ==
    CHOOSE i \in 0..Len(m) :
        (i = 0 \/ m[i] # 0) /\ \A j \in (i + 1)..Len(m) : m[j] = 0

BitLength(m) ==
    LET top == TopLimb(m)
    IN  IF top = 0 THEN 0 ELSE 14 * (top - 1) + LimbBits(m[top])

\* the four lowest limbs of m * 2^k
ShiftLeft(m, k) ==
    LET q == k \div 14
        r == k % 14
    IN  [i \in 1..4 |-> ((Limb(m, i - q) * Pow2(r)) % Base)
                            + Limb(m, i - q - 1) \div Pow2(14 - r)]

\* the four lowest limbs of m / 2^d cut to an integer
ShiftRight(m, d) ==
    LET q == d \div 14
        r == d % 14
    IN  [i \in 1..4 |-> Limb(m, i + q) \div Pow2(r)
                            + (Limb(m, i + q + 1) % Pow2(r)) * Pow2(14 - r)]

\* whether m / 2^d is not an integer
LostBits(m, d) ==
    \/ (Limb(m, d \div 14 + 1) % Pow2(d % 14)) # 0
    \/ \E j \in 1..(d \div 14) : Limb(m, j) # 0

\* m with its lowest bit set if bits were lost below it
OrSticky(m, lost) ==
    IF lost /\ (m[1] % 2) = 0 THEN [m EXCEPT ![1] = @ + 1] ELSE m

\* m / 2^d cut to an integer, the lowest bit set if the cut was not exact
ShiftRightSticky(m, d) == OrSticky(ShiftRight(m, d), LostBits(m, d))

\* a < b for two integers of four limbs
MantLess(a, b) ==
    IF a[4] # b[4] THEN a[4] < b[4]
    ELSE IF a[3] # b[3] THEN a[3] < b[3]
    ELSE IF a[2] # b[2] THEN a[2] < b[2]
    ELSE a[1] < b[1]

\* the float of the significand c, which has reached 2^56 if c[5] = 1
Significand(sign, exp, c) ==
    IF c[5] = 1 THEN Float(sign, exp + 1, <<0, 0, 0, Base \div 2>>)
    ELSE Float(sign, exp, <<c[1], c[2], c[3], c[4]>>)

\* the nearest float to (-1)^sign * m * 2^exp, for 2^55 <= m < 2^56: the
\* three lowest bits of m are rounded away, a tie goes to the even significand
RoundToNearestEven(sign, exp, m) ==
    LET r == m[1] % 8
        up == r > 4 \/ (r = 4 /\ ((m[1] \div 8) % 2) = 1)
    IN  Significand(sign, exp,
            Carry([m EXCEPT ![1] = @ - r + (IF up THEN 8 ELSE 0)], 1, 0))

\* m, an integer of the given number of bits, brought to 56 bits; lost tells
\* whether a fraction below m was cut already
Normalised(m, bits, lost) ==
    IF bits > 56
    THEN OrSticky(ShiftRight(m, bits - 56), lost \/ LostBits(m, bits - 56))
    ELSE OrSticky(ShiftLeft(m, 56 - bits), lost)

RoundBits(sign, exp, m, lost, bits) ==
    RoundToNearestEven(sign, exp + bits - 56, Normalised(m, bits, lost))

\* the nearest float to (-1)^sign * (m + fraction) * 2^exp for an integer
\* m # 0 of any number of limbs and 0 <= fraction < 1, lost telling whether
\* fraction # 0
Round(sign, exp, m, lost) == RoundBits(sign, exp, m, lost, BitLength(m))

\* the limbs of a natural number below 2^31
Limbs(a) == <<(a % Base), ((a \div Base) % Base), a \div (Base * Base)>>

\* float(n) for an integer n of at most 31 bits: exact
FromInt(n) ==
    IF n = 0 THEN Float(0, 0, <<0, 0, 0, 0>>)
    ELSE Round(IF n < 0 THEN 1 ELSE 0, 0, Limbs(IF n < 0 THEN -n ELSE n), FALSE)

\* |x| < |y|
MagnitudeLess(x, y) ==
    IF IsZero(y) THEN FALSE
    ELSE IF IsZero(x) THEN TRUE
    ELSE IF x.exp # y.exp THEN x.exp < y.exp
    ELSE MantLess(x.mant, y.mant)

\* a + b and a - b for integers of four limbs
SumOfLimbs(a, b) == Carry([i \in 1..4 |-> a[i] + b[i]], 1, 0)
DifferenceOfLimbs(a, b) == Carry([i \in 1..4 |-> a[i] - b[i]], 1, 0)

\* (-1)^sign * (|x| + |y|) for x, y # 0 with x.exp >= y.exp
AddMagnitudes(sign, x, y) ==
    Round(sign, x.exp,
          SumOfLimbs(x.mant, ShiftRightSticky(y.mant, x.exp - y.exp)), FALSE)

\* (-1)^sign * (|x| - |y|) for x, y # 0 with |x| > |y|
SubMagnitudes(sign, x, y) ==
    Round(sign, x.exp,
          DifferenceOfLimbs(x.mant, ShiftRightSticky(y.mant, x.exp - y.exp)),
          FALSE)

\* x + y
FAdd(x, y) ==
    IF IsNaN(x) \/ IsNaN(y) THEN NaN
    ELSE IF IsZero(x) /\ IsZero(y)
         THEN Float(IF x.sign = 1 /\ y.sign = 1 THEN 1 ELSE 0, 0, <<0, 0, 0, 0>>)
    ELSE IF IsZero(x) THEN y
    ELSE IF IsZero(y) THEN x
    ELSE IF x.sign = y.sign
         THEN IF x.exp >= y.exp THEN AddMagnitudes(x.sign, x, y)
              ELSE AddMagnitudes(x.sign, y, x)
    ELSE IF MagnitudeLess(y, x) THEN SubMagnitudes(x.sign, x, y)
    ELSE IF MagnitudeLess(x, y) THEN SubMagnitudes(y.sign, y, x)
    ELSE Float(0, 0, <<0, 0, 0, 0>>)

\* -x
FNeg(x) == IF IsNaN(x) THEN NaN ELSE [x EXCEPT !.sign = 1 - @]

\* x - y
FSub(x, y) == FAdd(x, FNeg(y))

\* a * b for integers of four limbs
ProductOfLimbs(a, b) ==
    Carry([k \in 1..7 |-> Limb(a, k) * b[1] + Limb(a, k - 1) * b[2]
                              + Limb(a, k - 2) * b[3] + Limb(a, k - 3) * b[4]],
          1, 0)

\* x * y
FMul(x, y) ==
    IF IsNaN(x) \/ IsNaN(y) THEN NaN
    ELSE IF IsZero(x) \/ IsZero(y)
         THEN Float(((x.sign + y.sign) % 2), 0, <<0, 0, 0, 0>>)
    ELSE Round(((x.sign + y.sign) % 2), x.exp + y.exp,
               ProductOfLimbs(x.mant, y.mant), FALSE)

\* r * Base - q * divisor: five limbs, followed by a negative element if the
\* difference is negative
Remainder(r, divisor, q) ==
    Carry([i \in 1..5 |-> Limb(r, i - 1) - q * Limb(divisor, i)], 1, 0)

\* one digit of the long division of r * Base by divisor (r < divisor, the
\* highest bit of divisor set): the largest q <= estimate that leaves a
\* remainder >= 0, and that remainder
RECURSIVE Digit(_, _, _)
Digit(r, divisor, estimate) ==
    LET left == Remainder(r, divisor, estimate)
    IN  IF left[6] < 0 THEN Digit(r, divisor, estimate - 1)
        ELSE [q |-> estimate, r |-> SubSeq(left, 1, 4)]

\* the quotient of the two highest limbs of r by the highest limb of divisor
\* exceeds the digit by 0, 1 or 2
NextDigit(r, divisor) ==
    LET quotient == (r[4] * Base + r[3]) \div divisor[4]
    IN  Digit(r, divisor, IF quotient >= Base THEN Base - 1 ELSE quotient)

\* the division s with the digit of one more step, digits lowest first
WithDigit(s, step) == [q |-> <<step.q>> \o s.q, r |-> step.r]

\* n more digits of the long division by divisor
RECURSIVE LongDivision(_, _, _)
LongDivision(s, divisor, n) ==
    IF n = 0 THEN s
    ELSE LongDivision(WithDigit(s, NextDigit(s.r, divisor)), divisor, n - 1)

\* the integer part of a / b, 0 or 1, and what it leaves of a
FirstDigit(a, b, q) ==
    [q |-> <<q>>,
     r |-> SubSeq(Carry([i \in 1..4 |-> a[i] - q * b[i]], 1, 0), 1, 4)]

\* the quotient a * 2^56 / b of two integers of 56 bits
Quotient(a, b) ==
    LongDivision(FirstDigit(a, b, IF MantLess(a, b) THEN 0 ELSE 1), b, 4)

RoundQuotient(sign, exp, s) ==
    Round(sign, exp, s.q, \E i \in 1..4 : s.r[i] # 0)

\* x / y for y # 0
FDiv(x, y) ==
    IF IsNaN(x) \/ IsNaN(y) \/ IsZero(y) THEN NaN
    ELSE IF IsZero(x) THEN Float(((x.sign + y.sign) % 2), 0, <<0, 0, 0, 0>>)
    ELSE RoundQuotient(((x.sign + y.sign) % 2), x.exp - y.exp - 56,
                       Quotient(x.mant, y.mant))

\* math.floor(x) for 0 <= x < 2^28
FFloor(x) ==
    LET cut == ShiftRight(x.mant, 0 - x.exp)
    IN  cut[1] + cut[2] * Base

\* x < y ; every comparison with nan is False
FLt(x, y) ==
    /\ ~IsNaN(x) /\ ~IsNaN(y)
    /\ ~(IsZero(x) /\ IsZero(y))
    /\ IF x.sign # y.sign THEN x.sign = 1
       ELSE IF x.sign = 0 THEN MagnitudeLess(x, y)
       ELSE MagnitudeLess(y, x)

\* x >= y
FGeq(x, y) == ~IsNaN(x) /\ ~IsNaN(y) /\ ~FLt(x, y)

\* x > y
FGt(x, y) == FLt(y, x)

\* x <= y
FLeq(x, y) == FGeq(y, x)

\* the float nearest to n / d (d # 0): what Python reads from a decimal
\* literal such as 0.8, and what n / d evaluates to
Rat(n, d) == FDiv(FromInt(n), FromInt(d))

\* the floats Python reads from the literals 0.00, 0.01, ... 1.50
TwoPlaces == [h \in 0..150 |-> Rat(h, 100)]

Hundredths(h) == TwoPlaces[h]

Zero == Rat(0, 1)
One == Rat(1, 1)

\* floor(sqrt(n)) for a natural number n below 2^28
RECURSIVE isqrt_between(_, _, _)
isqrt_between(n, low, high) ==
    IF low >= high THEN low
    ELSE LET mid == (low + high + 1) \div 2
         IN  IF mid * mid <= n THEN isqrt_between(n, mid, high)
             ELSE isqrt_between(n, low, mid - 1)

isqrt(n) == isqrt_between(n, 0, Base - 1)

\* the limbs of u * d, followed by the carry out of the highest
TimesLimb(u, d) == Carry([k \in DOMAIN u |-> u[k] * d], 1, 0)

\* the limbs of a - b, followed by a negative element if a < b
Minus(a, b) == Carry([k \in DOMAIN a |-> a[k] - Limb(b, k)], 1, 0)

\* (2 * root + d * Base^i) * d * Base^i for the digit d of weight Base^i
DigitTerm(root, i, d) ==
    [k \in 1..i |-> 0] \o TimesLimb([TimesLimb(root, 2) EXCEPT ![i + 1] = d], d)

\* one digit of the long-hand square root: root holds the digits found so
\* far, rest = n - root^2; the digit of weight Base^i is the largest
\* d <= estimate whose term does not exceed rest
RECURSIVE RootDigit(_, _, _, _)
RootDigit(root, rest, i, estimate) ==
    LET t == DigitTerm(root, i, estimate)
        left == Minus(rest, t)
    IN  IF left[Len(left)] < 0 \/ \E k \in (Len(rest) + 1)..Len(t) : t[k] # 0
        THEN RootDigit(root, rest, i, estimate - 1)
        ELSE [root |-> [root EXCEPT ![i + 1] = estimate],
              rest |-> SubSeq(left, 1, Len(rest))]

NextRootDigit(s, i) ==
    LET top == (s.rest[i + 6] * Base + s.rest[i + 5]) * Base + s.rest[i + 4]
        estimate == top \div (2 * s.root[4])
    IN  RootDigit(s.root, s.rest, i, IF estimate >= Base THEN Base - 1 ELSE estimate)

\* the digits of weight Base^i down to Base^0
RECURSIVE RootDigits(_, _)
RootDigits(s, i) ==
    IF i < 0 THEN s ELSE RootDigits(NextRootDigit(s, i), i - 1)

\* the highest digit of the root of m * 2^56, the root of the two highest
\* limbs of m, and what it leaves
FirstRootDigit(m, top, first) ==
    [root |-> <<0, 0, 0, first>>,
     rest |-> <<0, 0, 0, 0, m[1], m[2], (top - first * first) % Base,
                (top - first * first) \div Base, 0>>]

\* floor(sqrt(m * 2^56)) and what it leaves, for 2^54 <= m < 2^56
Root(m) ==
    RootDigits(FirstRootDigit(m, m[4] * Base + m[3], isqrt(m[4] * Base + m[3])), 2)

RoundRoot(exp, s) ==
    RoundToNearestEven(0, exp,
        OrSticky(s.root, \E k \in DOMAIN s.rest : s.rest[k] # 0))

\* math.sqrt(x), np.sqrt(x): correctly rounded; nan for x < 0
FSqrt(x) ==
    IF IsNaN(x) THEN NaN
    ELSE IF IsZero(x) THEN x
    ELSE IF x.sign = 1 THEN NaN
    ELSE IF x.exp % 2 = 0 THEN RoundRoot((x.exp - 56) \div 2, Root(x.mant))
    ELSE RoundRoot((x.exp - 55) \div 2, Root(ShiftRight(x.mant, 1)))

(***************************************************************************)
(* Outcome of a call.                                                      *)
(***************************************************************************)
Returned(v) == [status |-> "returned", value |-> v]
Raised(e) == [status |-> "raised", value |-> e]

(***************************************************************************)
(* Objects of the process besides the evaluator instance.                  *)
(***************************************************************************)
\* the list display [] creates a new list object, distinct from every
\* existing one; list objects are identified by a number
list_literal_same_object(existing) == 1

list_literal(existing) == Cardinality(existing) + 1

\* kind where the module that defines the class did not import: no class and
\* no instance exists
NoInstance == "none"

\* The names a module binds by its `from typing import` line and the names of
\* typing its annotations use.  Python evaluates the annotations of a def
\* statement and of a class body when the statement runs, which is at import.
typing_imports(module) ==
    CASE module = "eureqai.evaluators.base" -> {"Dict", "List", "Any", "Optional"}
      [] module = "eureqai.evaluators.fairness" -> {"List", "Dict", "Any"}
      [] module = "eureqai.evaluators.privacy" -> {"List", "Dict", "Any", "Optional"}
      [] module = "eureqai.evaluators.technical_robustness" ->
            {"List", "Dict", "Any", "Optional"}
      [] module = "eureqai.evaluators.transparency" -> {"List", "Dict", "Any"}
      [] module = "eureqai.metrics.base" -> {"Dict", "List", "Any", "Optional", "Union"}
      [] module = "eureqai.metrics.common" -> {"List", "Dict", "Any"}
      [] module = "eureqai.metrics.transparency" -> {"List", "Dict"}

annotation_names(module) ==
    CASE module = "eureqai.evaluators.base" -> {"Dict", "List", "Any", "Optional"}
      [] module = "eureqai.evaluators.fairness" -> {"List", "Optional"}
      [] module = "eureqai.evaluators.privacy" -> {"List", "Dict", "Any"}
      [] module = "eureqai.evaluators.technical_robustness" ->
            {"List", "Dict", "Any", "Optional"}
      [] module = "eureqai.evaluators.transparency" -> {"List"}
      [] module = "eureqai.metrics.base" -> {"Dict", "Any", "Optional"}
      [] module = "eureqai.metrics.common" -> {"Dict", "Any", "Optional"}
      [] module = "eureqai.metrics.transparency" -> {"List", "Dict"}

\* the modules of the package a module imports before its own body runs
package_imports(module) ==
    CASE module \in {"eureqai.evaluators.fairness", "eureqai.evaluators.privacy",
                     "eureqai.evaluators.technical_robustness",
                     "eureqai.evaluators.transparency"} ->
            {"eureqai.evaluators.base"}
      [] module = "eureqai.metrics.transparency" -> {"eureqai.metrics.base"}
      [] OTHER -> {}

\* import of the module, supplied being the names bound besides those of the
\* import lines: a name an annotation uses and nothing binds raises NameError
import_module(module, supplied) ==
    IF \A m \in package_imports(module) \cup {module} :
          annotation_names(m) \subseteq typing_imports(m) \cup supplied
    THEN Returned(<<>>)
    ELSE Raised("NameError")

\* src/ holds the modules as shipped, which bind nothing more
AsShipped == {}

\* the import line of fairness.py and of common.py completed with the name
\* their annotations use, as the import lines of the other modules have it
Completed == {"Optional"}

\* no second evaluator has been constructed
NoPeer == [kind |-> "none", requirements |-> <<>>, results_id |-> 0, results |-> <<>>]

\* self.results.append(...) changes the list object: every instance whose
\* results attribute is bound to that object sees the new contents
write_through(instance, id, contents) ==
    IF instance.results_id = id THEN [instance EXCEPT !.results = contents]
    ELSE instance

\* np.random is not used by the evaluators: the generator stays as imported
\* (seeded: np.random.seed was called; seed: with what; pos: outputs drawn
\* since)
unused_generator == [seed |-> 0, pos |-> 0, seeded |-> FALSE]

\* bootstrap_metric is not running
NoFrame == [running |-> FALSE]

(***************************************************************************)
(* Data model: Requirement and EvaluationResult (base.py).                 *)
(***************************************************************************)
\* Requirement(id=..., name=..., article=..., priority=...): the generated
\* dataclass constructor stores its arguments; it validates nothing.
Requirement(id, name, article, priority) ==
    [id |-> id, name |-> name, article |-> article, priority |-> priority]

EvaluationResult(requirement, score, confidence, evidence, recommendations, metadata) ==
    [requirement |-> requirement, score |-> score, confidence |-> confidence,
     evidence |-> evidence, recommendations |-> recommendations,
     metadata |-> metadata]

(***************************************************************************)
(* Aggregator (BaseEvaluator).                                             *)
(***************************************************************************)
get_compliance_level_partial_at_06(score) ==
    IF FGeq(score, Hundredths(80)) THEN "compliant"
    ELSE IF FGt(score, Hundredths(60)) THEN "partially_compliant"
    ELSE "non_compliant"

get_compliance_level(score) ==
    IF FGeq(score, Hundredths(80)) THEN "compliant"
    ELSE IF FGeq(score, Hundredths(60)) THEN "partially_compliant"
    ELSE "non_compliant"

weights ==
    [critical |-> Rat(10, 10), high |-> Rat(8, 10), medium |-> Rat(6, 10),
     low |-> Rat(4, 10)]

\* sum(f(result) for result in rs), left to right from 0
RECURSIVE weighted_sum(_, _)
weighted_sum(rs, n) ==
    IF n = 0 THEN Zero
    ELSE FAdd(weighted_sum(rs, n - 1),
              FMul(rs[n].score, weights[rs[n].requirement.priority]))

RECURSIVE total_weight(_, _)
total_weight(rs, n) ==
    IF n = 0 THEN Zero
    ELSE FAdd(total_weight(rs, n - 1), weights[rs[n].requirement.priority])

get_overall_score_unguarded(rs) ==
    IF \E i \in DOMAIN rs : rs[i].requirement.priority \notin DOMAIN weights
    THEN Raised("KeyError")
    ELSE IF total_weight(rs, Len(rs)) = Zero THEN Raised("ZeroDivisionError")
    ELSE Returned(FDiv(weighted_sum(rs, Len(rs)), total_weight(rs, Len(rs))))

get_overall_score(rs) ==
    IF rs = <<>> THEN Returned(Zero)
    ELSE IF \E i \in DOMAIN rs : rs[i].requirement.priority \notin DOMAIN weights
    THEN Raised("KeyError")
    ELSE LET total == total_weight(rs, Len(rs))
         IN  IF FGt(total, Zero)
             THEN Returned(FDiv(weighted_sum(rs, Len(rs)), total))
             ELSE Returned(Zero)

issue_entry(result) ==
    [requirement |-> result.requirement.name,
     article |-> result.requirement.article,
     score |-> result.score,
     recommendations |-> result.recommendations]

RECURSIVE get_critical_issues_newest_first(_)
get_critical_issues_newest_first(rs) ==
    IF rs = <<>> THEN <<>>
    ELSE LET result == Head(rs)
             rest == get_critical_issues_newest_first(Tail(rs))
         IN  IF result.requirement.priority = "critical"
                /\ FLt(result.score, Hundredths(60))
             THEN Append(rest, issue_entry(result))
             ELSE rest

RECURSIVE get_critical_issues_upto(_, _)
get_critical_issues_upto(rs, n) ==
    IF n = 0 THEN <<>>
    ELSE LET critical_issues == get_critical_issues_upto(rs, n - 1)
             result == rs[n]
         IN  IF result.requirement.priority = "critical"
                /\ FLt(result.score, Hundredths(60))
             THEN Append(critical_issues, issue_entry(result))
             ELSE critical_issues

get_critical_issues(rs) == get_critical_issues_upto(rs, Len(rs))

get_overall_compliance_level_no_override(rs) ==
    LET overall_score == get_overall_score(rs)
    IN  IF overall_score.status = "raised" THEN overall_score
        ELSE Returned(get_compliance_level(overall_score.value))

get_overall_compliance_level(rs) ==
    LET overall_score == get_overall_score(rs)
        critical_issues == get_critical_issues(rs)
    IN  IF overall_score.status = "raised" THEN overall_score
        ELSE IF critical_issues # <<>> THEN Returned("non_compliant")
        ELSE Returned(get_compliance_level(overall_score.value))

\* the constructor arguments kept as self.model_name, self.model_version
model_name == "model"
model_version == "1.0"

detailed_result_level_of_confidence(result) ==
    [requirement |-> [id |-> result.requirement.id,
                      name |-> result.requirement.name,
                      article |-> result.requirement.article,
                      priority |-> result.requirement.priority],
     score |-> result.score,
     confidence |-> result.confidence,
     compliance_level |-> get_compliance_level(result.confidence),
     evidence |-> result.evidence,
     recommendations |-> result.recommendations,
     metadata |-> result.metadata]

\* one entry of detailed_results (the timestamp, a clock reading, is left out)
detailed_result(result) ==
    [requirement |-> [id |-> result.requirement.id,
                      name |-> result.requirement.name,
                      article |-> result.requirement.article,
                      priority |-> result.requirement.priority],
     score |-> result.score,
     confidence |-> result.confidence,
     compliance_level |-> get_compliance_level(result.score),
     evidence |-> result.evidence,
     recommendations |-> result.recommendations,
     metadata |-> result.metadata]

generate_report_without_last_result(self_requirements, rs) ==
    LET overall_score == get_overall_score(rs)
        compliance_level == get_overall_compliance_level(rs)
    IN  IF overall_score.status = "raised" THEN overall_score
        ELSE Returned(
            [model_info |-> [name |-> model_name, version |-> model_version],
             summary |->
                [overall_score |-> overall_score.value,
                 compliance_level |-> compliance_level.value,
                 critical_issues |->
                     get_critical_issues(SubSeq(rs, 1, Len(rs) - 1)),
                 total_requirements |-> Len(self_requirements),
                 evaluated_requirements |-> Len(rs)],
             detailed_results |-> [i \in DOMAIN rs |-> detailed_result(rs[i])]])

\* the dictionary is built in source order: an exception of get_overall_score
\* ends the call (evaluation_date, a clock reading, is left out)
generate_report(self_requirements, rs) ==
    LET overall_score == get_overall_score(rs)
        compliance_level == get_overall_compliance_level(rs)
    IN  IF overall_score.status = "raised" THEN overall_score
        ELSE Returned(
            [model_info |-> [name |-> model_name, version |-> model_version],
             summary |->
                [overall_score |-> overall_score.value,
                 compliance_level |-> compliance_level.value,
                 critical_issues |-> get_critical_issues(rs),
                 total_requirements |-> Len(self_requirements),
                 evaluated_requirements |-> Len(rs)],
             detailed_results |-> [i \in DOMAIN rs |-> detailed_result(rs[i])]])

(***************************************************************************)
(* Calls of the aggregation methods on the instance.                       *)
(***************************************************************************)
\* scores handed to get_compliance_level
LevelArgs ==
    {Hundredths(h) : h \in {0, 59, 60, 79, 80, 100, 150}} \cup {NaN}

GetComplianceLevel(score) ==
    /\ kind # NoInstance
    /\ op' = "get_compliance_level"
    /\ arg' = score
    /\ ret' = Returned(get_compliance_level(score))
    /\ UNCHANGED <<kind, requirements, results, logged>>
    /\ UNCHANGED <<results_id, peer, rng, frame>>

GetOverallScore ==
    /\ kind # NoInstance
    /\ op' = "get_overall_score"
    /\ arg' = <<>>
    /\ ret' = get_overall_score(results)
    /\ UNCHANGED <<kind, requirements, results, logged>>
    /\ UNCHANGED <<results_id, peer, rng, frame>>

\* get_critical_issues that takes the reported results out of the store
GetCriticalIssues_consuming ==
    /\ kind # NoInstance
    /\ op' = "get_critical_issues"
    /\ arg' = <<>>
    /\ ret' = Returned(get_critical_issues(results))
    /\ results' = SelectSeq(results,
                            LAMBDA result :
                                ~(/\ result.requirement.priority = "critical"
                                  /\ FLt(result.score, Hundredths(60))))
    /\ UNCHANGED <<kind, requirements, logged>>
    /\ UNCHANGED <<results_id, peer, rng, frame>>

GetCriticalIssues ==
    /\ kind # NoInstance
    /\ op' = "get_critical_issues"
    /\ arg' = <<>>
    /\ ret' = Returned(get_critical_issues(results))
    /\ UNCHANGED <<kind, requirements, results, logged>>
    /\ UNCHANGED <<results_id, peer, rng, frame>>

GetOverallComplianceLevel ==
    /\ kind # NoInstance
    /\ op' = "get_overall_compliance_level"
    /\ arg' = <<>>
    /\ ret' = get_overall_compliance_level(results)
    /\ UNCHANGED <<kind, requirements, results, logged>>
    /\ UNCHANGED <<results_id, peer, rng, frame>>

GenerateReport ==
    /\ kind # NoInstance
    /\ op' = "generate_report"
    /\ arg' = <<>>
    /\ ret' = generate_report(requirements, results)
    /\ UNCHANGED <<kind, requirements, results, logged>>
    /\ UNCHANGED <<results_id, peer, rng, frame>>

(***************************************************************************)
(* Routines the evaluators call but src/ does not define                   *)
(* (_evaluate_capability_disclosure, _get_minimization_recommendations,    *)
(* ...).  As the classes stand the call raises AttributeError; a class     *)
(* completed with the routine gets what the specification says a scoring   *)
(* routine delivers: a result for the requirement with a score and a       *)
(* confidence in [0,1].                                                    *)
(***************************************************************************)
ExternalScores == {Hundredths(40), Hundredths(90)}

ScoringRoutine(requirement) ==
    {Raised("AttributeError")} \cup
    {Returned(EvaluationResult(requirement, s, Hundredths(70), <<>>, <<>>, <<>>)) :
        s \in ExternalScores}

RecommendationRoutine == {Raised("AttributeError"), Returned(<<>>)}

(***************************************************************************)
(* The loop of FairnessEvaluator.evaluate and TransparencyEvaluator        *)
(* .evaluate: each requirement's result is appended to the local list and  *)
(* to self.results; an exception of a routine ends the call and leaves     *)
(* what was appended before it.  Where no branch of the if / elif chain    *)
(* matches the requirement's id, the local variable result keeps the value *)
(* of the pass before, which is appended again; in the first pass it is    *)
(* unbound and the append raises UnboundLocalError.                        *)
(***************************************************************************)
\* no branch of the if / elif chain was taken
NoBranch == [status |-> "no branch", value |-> <<>>]

RECURSIVE evaluate_loop(_, _, _, _)
evaluate_loop(outcomes, i, local, store) ==
    IF i > Len(outcomes) THEN [ret |-> Returned(local), results |-> store]
    ELSE IF outcomes[i].status = "raised"
         THEN [ret |-> outcomes[i], results |-> store]
    ELSE IF outcomes[i] = NoBranch /\ local = <<>>
         THEN [ret |-> Raised("UnboundLocalError"), results |-> store]
    ELSE LET result == IF outcomes[i] = NoBranch THEN local[Len(local)]
                       ELSE outcomes[i].value
         IN  evaluate_loop(outcomes, i + 1, Append(local, result),
                           Append(store, result))

(***************************************************************************)
(* TransparencyEvaluator.                                                  *)
(***************************************************************************)
Transparency_initialize_requirements ==
    <<Requirement("TRANS-1", "AI System Identification", "Article 52(1)", "critical"),
      Requirement("TRANS-2", "Capability Disclosure", "Article 52(2)", "high"),
      Requirement("TRANS-3", "Limitation Disclosure", "Article 52(2)", "high")>>

markers ==
    <<"\\b(i am|i'm|this is) an ai\\b", "\\bartificial intelligence\\b",
      "\\blanguage model\\b", "\\bai (system|assistant|model)\\b">>

\* the responses passed to evaluate
SampleResponses == {"Hello there", "I am an AI language model"}

\* response.lower()
lower(response) ==
    CASE response = "Hello there" -> "hello there"
      [] response = "I am an AI language model" -> "i am an ai language model"

\* re.search(marker, response_lower) is not None
re_search(marker, response_lower) ==
    CASE response_lower = "hello there" -> FALSE
      [] response_lower = "i am an ai language model" ->
            marker \in {markers[1], markers[3]}

\* the markers found in one response, in the order of the markers list
RECURSIVE response_matches(_, _)
response_matches(response_lower, n) ==
    IF n = 0 THEN <<>>
    ELSE IF re_search(markers[n], response_lower)
         THEN Append(response_matches(response_lower, n - 1), markers[n])
         ELSE response_matches(response_lower, n - 1)

\* the loop over the responses: [matches, evidence] after the first n
RECURSIVE scan_responses(_, _)
scan_responses(responses, n) ==
    IF n = 0 THEN [matches |-> 0, evidence |-> <<>>]
    ELSE LET before == scan_responses(responses, n - 1)
             found == response_matches(lower(responses[n]), Len(markers))
         IN  [matches |-> before.matches + Len(found),
              evidence |-> IF found # <<>>
                           THEN Append(before.evidence, found)
                           ELSE before.evidence]

\* the result carries dataclasses.replace(requirement, priority="high")
Transparency_evaluate_self_identification_modified_copy(requirement, responses) ==
    LET scan == scan_responses(responses, Len(responses))
        matches == scan.matches
        score == IF responses # <<>> THEN Rat(matches, Len(responses)) ELSE Zero
        confidence == IF Len(responses) > 10 THEN Hundredths(80)
                      ELSE Hundredths(60)
        recommendations ==
            IF FLt(score, Hundredths(60))
            THEN <<"Implement consistent AI self-identification",
                   "Add explicit AI disclosure statements">>
            ELSE IF FLt(score, Hundredths(80))
                 THEN <<"Enhance clarity of AI identification">>
                 ELSE <<>>
    IN  EvaluationResult([requirement EXCEPT !.priority = "high"], score,
                         confidence, scan.evidence, recommendations,
                         [total_responses |-> Len(responses), matches |-> matches])

Transparency_evaluate_self_identification(requirement, responses) ==
    LET scan == scan_responses(responses, Len(responses))
        matches == scan.matches
        score == IF responses # <<>> THEN Rat(matches, Len(responses)) ELSE Zero
        confidence == IF Len(responses) > 10 THEN Hundredths(80)
                      ELSE Hundredths(60)
        recommendations ==
            IF FLt(score, Hundredths(60))
            THEN <<"Implement consistent AI self-identification",
                   "Add explicit AI disclosure statements">>
            ELSE IF FLt(score, Hundredths(80))
                 THEN <<"Enhance clarity of AI identification">>
                 ELSE <<>>
    IN  EvaluationResult(requirement, score, confidence, scan.evidence,
                         recommendations,
                         [total_responses |-> Len(responses), matches |-> matches])

\* the routine the loop selects for a requirement, by id
Transparency_dispatch(req, responses, capability, limitation) ==
    IF req.id = "TRANS-1"
    THEN Returned(Transparency_evaluate_self_identification(req, responses))
    ELSE IF req.id = "TRANS-2" THEN capability
    ELSE IF req.id = "TRANS-3" THEN limitation
    ELSE NoBranch

\* evaluate begins with self.results = []
Transparency_evaluate_store_reset(self_requirements, self_results, responses, capability, limitation) ==
    evaluate_loop([i \in DOMAIN self_requirements |->
                      Transparency_dispatch(self_requirements[i], responses,
                                            capability, limitation)],
                  1, <<>>, <<>>)

Transparency_evaluate(self_requirements, self_results, responses, capability, limitation) ==
    evaluate_loop([i \in DOMAIN self_requirements |->
                      Transparency_dispatch(self_requirements[i], responses,
                                            capability, limitation)],
                  1, <<>>, self_results)

ResponseLists == UNION {[1..n -> SampleResponses] : n \in 0..MaxResponses}

TransparencyEvaluate(responses, capability, limitation) ==
    /\ kind = "TransparencyEvaluator"
    /\ Len(results) + Len(requirements) <= MaxResults
    /\ LET run == Transparency_evaluate(requirements, results, responses,
                                        capability, limitation)
       IN  /\ results' = run.results
           /\ ret' = run.ret
    /\ op' = "evaluate"
    /\ arg' = [responses |-> responses]
    /\ peer' = write_through(peer, results_id, results')
    /\ UNCHANGED <<kind, requirements, logged, results_id, rng, frame>>

(***************************************************************************)
(* FairnessEvaluator.                                                      *)
(***************************************************************************)
Fairness_initialize_requirements ==
    <<Requirement("FAIR-1", "Protected Attribute Bias", "Article 10(2)", "critical"),
      Requirement("FAIR-2", "Representation Bias", "Article 10(3)", "high")>>

Fairness_dispatch(req, protected_attribute_bias, representation_bias) ==
    IF req.id = "FAIR-1" THEN protected_attribute_bias
    ELSE IF req.id = "FAIR-2" THEN representation_bias
    ELSE NoBranch

Fairness_evaluate(self_requirements, self_results, protected_attribute_bias, representation_bias) ==
    evaluate_loop([i \in DOMAIN self_requirements |->
                      Fairness_dispatch(self_requirements[i],
                                        protected_attribute_bias,
                                        representation_bias)],
                  1, <<>>, self_results)

\* _evaluate_protected_attribute_bias(req, predictions, protected_attributes,
\* ground_truth), which src/ does not define: any outcome of a scoring
\* routine, and MissingInput when ground_truth is not supplied
ProtectedAttributeBiasRoutine(requirement, ground_truth) ==
    ScoringRoutine(requirement) \cup
    (IF ground_truth.present THEN {} ELSE {Raised("MissingInput")})

\* the first argument is evaluate's ground_truth, None by default
FairnessEvaluate(ground_truth, protected_attribute_bias, representation_bias) ==
    /\ kind = "FairnessEvaluator"
    /\ Len(results) + Len(requirements) <= MaxResults
    /\ LET run == Fairness_evaluate(requirements, results,
                                    protected_attribute_bias, representation_bias)
       IN  /\ results' = run.results
           /\ ret' = run.ret
    /\ op' = "evaluate"
    /\ arg' = [ground_truth |-> ground_truth]
    /\ peer' = write_through(peer, results_id, results')
    /\ UNCHANGED <<kind, requirements, logged, results_id, rng, frame>>

(***************************************************************************)
(* PrivacyEvaluator.                                                       *)
(***************************************************************************)
Privacy_initialize_requirements ==
    <<Requirement("PRIV-1", "Data Minimization", "Article 10(5)", "high"),
      Requirement("PRIV-2", "Privacy by Design", "Article 10(6)", "critical"),
      Requirement("PRIV-3", "Data Protection", "Article 10(7)", "critical")>>

\* d.get(key, default)
dict_get(d, key, default) == IF key \in DOMAIN d THEN d[key] ELSE default

\* [f for f in collected_fields if f not in required_fields]
RECURSIVE unnecessary_fields(_, _, _)
unnecessary_fields(collected_fields, required_fields, n) ==
    IF n = 0 THEN <<>>
    ELSE IF \A k \in DOMAIN required_fields :
                required_fields[k] # collected_fields[n]
         THEN Append(unnecessary_fields(collected_fields, required_fields, n - 1),
                     collected_fields[n])
         ELSE unnecessary_fields(collected_fields, required_fields, n - 1)

\* the first argument is the outcome of _get_minimization_recommendations
Privacy_evaluate_data_minimization(self_requirements, system_data, recommendations) ==
    LET required_fields == dict_get(system_data, "required_fields", <<>>)
        collected_fields == dict_get(system_data, "collected_fields", <<>>)
        unnecessary == unnecessary_fields(collected_fields, required_fields,
                                          Len(collected_fields))
        score == FSub(One, IF collected_fields # <<>>
                           THEN Rat(Len(unnecessary), Len(collected_fields))
                           ELSE Zero)
    IN  IF recommendations.status = "raised" THEN recommendations
        ELSE Returned(EvaluationResult(self_requirements[1], score,
                                       Hundredths(90), <<unnecessary>>,
                                       recommendations.value, <<>>))

required_measures ==
    <<[name |-> "encryption", weight |-> Rat(3, 10), required |-> TRUE],
      [name |-> "anonymization", weight |-> Rat(3, 10), required |-> TRUE],
      [name |-> "access_control", weight |-> Rat(2, 10), required |-> TRUE],
      [name |-> "data_retention", weight |-> Rat(1, 10), required |-> FALSE],
      [name |-> "audit_logging", weight |-> Rat(1, 10), required |-> FALSE]>>

\* the loop over required_measures: [score, missing_required] after the first n
RECURSIVE scan_measures(_, _)
scan_measures(privacy_measures, n) ==
    IF n = 0 THEN [score |-> Zero, missing_required |-> <<>>]
    ELSE LET before == scan_measures(privacy_measures, n - 1)
             config == required_measures[n]
         IN  IF config.name \in privacy_measures
             THEN [score |-> FAdd(before.score, config.weight),
                   missing_required |-> before.missing_required]
             ELSE IF config.required
                  THEN [score |-> before.score,
                        missing_required |->
                            Append(before.missing_required, config.name)]
                  ELSE before

Privacy_evaluate_privacy_design(self_requirements, privacy_measures, recommendations) ==
    LET scan == scan_measures(privacy_measures, Len(required_measures))
    IN  IF recommendations.status = "raised" THEN recommendations
        ELSE Returned(EvaluationResult(self_requirements[2], scan.score,
                                       Hundredths(85), <<scan.missing_required>>,
                                       recommendations.value, <<>>))

\* evaluate builds a local list and returns it; it never touches self.results
Privacy_evaluate(self_requirements, system_data, privacy_measures, minimization_recommendations, privacy_recommendations, data_protection) ==
    LET minimization_result ==
            Privacy_evaluate_data_minimization(self_requirements, system_data,
                                               minimization_recommendations)
        privacy_design_result ==
            Privacy_evaluate_privacy_design(self_requirements, privacy_measures,
                                            privacy_recommendations)
    IN  IF minimization_result.status = "raised" THEN minimization_result
        ELSE IF privacy_design_result.status = "raised"
             THEN privacy_design_result
        ELSE IF data_protection.status = "raised" THEN data_protection
        ELSE Returned(<<minimization_result.value, privacy_design_result.value,
                        data_protection.value>>)

FieldNames == {"email", "age"}

FieldLists == UNION {[1..n -> FieldNames] : n \in 0..MaxFields}

\* system_data dictionaries: the empty dictionary, or both lists given
SystemData ==
    {<<>>} \cup
    {[required_fields |-> required, collected_fields |-> collected] :
        required \in {<<>>, <<"email">>}, collected \in FieldLists}

MeasureNames ==
    {"encryption", "anonymization", "access_control", "data_retention",
     "audit_logging"}

\* privacy_measures dictionaries, by their keys
PrivacyMeasures ==
    {{}, {"encryption", "audit_logging"},
     {"encryption", "anonymization", "access_control"}, MeasureNames}

PrivacyEvaluate(system_data, privacy_measures, minimization_recommendations, privacy_recommendations, data_protection) ==
    /\ kind = "PrivacyEvaluator"
    /\ op' = "evaluate"
    /\ arg' = [system_data |-> system_data, privacy_measures |-> privacy_measures]
    /\ ret' = Privacy_evaluate(requirements, system_data, privacy_measures,
                               minimization_recommendations,
                               privacy_recommendations, data_protection)
    /\ UNCHANGED <<kind, requirements, results, logged>>
    /\ UNCHANGED <<results_id, peer, rng, frame>>

(***************************************************************************)
(* TechnicalRobustnessEvaluator.                                           *)
(***************************************************************************)
TechnicalRobustness_initialize_requirements ==
    <<Requirement("TECH-1", "Accuracy and Reliability", "Article 15(1)", "critical"),
      Requirement("TECH-2", "Error Handling", "Article 15(2)", "high"),
      Requirement("TECH-3", "Resilience", "Article 15(3)", "critical")>>

TechnicalRobustness_check_consistency_fabricated(response) ==
    Returned(One)

TechnicalRobustness_check_consistency(response) ==
    Raised("NotImplementedError")

TechnicalRobustness_check_coherence(response) ==
    Raised("NotImplementedError")

\* np.mean of a list of floats: nan (and a RuntimeWarning) for the empty list
RECURSIVE np_sum(_, _)
np_sum(xs, n) == IF n = 0 THEN Zero ELSE FAdd(np_sum(xs, n - 1), xs[n])

np_mean(xs) ==
    IF xs = <<>> THEN NaN ELSE FDiv(np_sum(xs, Len(xs)), FromInt(Len(xs)))

\* the first response already raises in _check_consistency; with no response
\* both score lists stay empty
TechnicalRobustness_evaluate_accuracy_reliability(self_requirements, responses, recommendations) ==
    IF responses # <<>> THEN TechnicalRobustness_check_consistency(responses[1])
    ELSE LET consistency_scores == <<>>
             coherence_scores == <<>>
             overall_score ==
                 FAdd(FMul(np_mean(consistency_scores), Rat(6, 10)),
                      FMul(np_mean(coherence_scores), Rat(4, 10)))
         IN  IF recommendations.status = "raised" THEN recommendations
             ELSE Returned(EvaluationResult(self_requirements[1], overall_score,
                                            Hundredths(80),
                                            <<np_mean(consistency_scores),
                                              np_mean(coherence_scores)>>,
                                            recommendations.value, <<>>))

\* an Optional[List] argument: None, or a list
None == [present |-> FALSE, value |-> <<>>]
Some(list) == [present |-> TRUE, value |-> list]

\* bool(x) for an Optional[List]
truthy(x) == x.present /\ x.value # <<>>

\* evaluate builds a local list and returns it; it never touches self.results
\* and writes nothing to self.logger
TechnicalRobustness_evaluate(self_requirements, responses, adversarial_responses, error_cases, recommendations, error_handling, resilience) ==
    LET accuracy_result ==
            TechnicalRobustness_evaluate_accuracy_reliability(
                self_requirements, responses, recommendations)
    IN  IF accuracy_result.status = "raised" THEN accuracy_result
        ELSE IF truthy(error_cases) /\ error_handling.status = "raised"
             THEN error_handling
        ELSE IF truthy(adversarial_responses) /\ resilience.status = "raised"
             THEN resilience
        ELSE Returned(<<accuracy_result.value>>
                      \o (IF truthy(error_cases)
                          THEN <<error_handling.value>> ELSE <<>>)
                      \o (IF truthy(adversarial_responses)
                          THEN <<resilience.value>> ELSE <<>>))

OptionalLists == {None, Some(<<>>), Some(<<"case">>)}

TechnicalRobustnessEvaluate(responses, adversarial_responses, error_cases, recommendations, error_handling, resilience) ==
    /\ kind = "TechnicalRobustnessEvaluator"
    /\ op' = "evaluate"
    /\ arg' = [responses |-> responses,
               adversarial_responses |-> adversarial_responses,
               error_cases |-> error_cases]
    /\ ret' = TechnicalRobustness_evaluate(requirements, responses,
                                           adversarial_responses, error_cases,
                                           recommendations, error_handling,
                                           resilience)
    /\ UNCHANGED <<kind, requirements, results, logged>>
    /\ UNCHANGED <<results_id, peer, rng, frame>>

(***************************************************************************)
(* Spec: a process that imports a module of evaluators/ and constructs one *)
(* instance of its class, under any sequence of calls.  fairness.py as     *)
(* shipped raises NameError at import; its class is modelled with the      *)
(* import line completed.                                                  *)
(***************************************************************************)
\* the module that defines each evaluator class
evaluator_module ==
    [FairnessEvaluator |-> "eureqai.evaluators.fairness",
     PrivacyEvaluator |-> "eureqai.evaluators.privacy",
     TechnicalRobustnessEvaluator |-> "eureqai.evaluators.technical_robustness",
     TransparencyEvaluator |-> "eureqai.evaluators.transparency"]

\* the subclasses of BaseEvaluator that exist after the imports
EvaluatorSubclasses(supplied) ==
    {class \in DOMAIN evaluator_module :
        import_module(evaluator_module[class], supplied).status = "returned"}

\* BaseEvaluator.__subclasses__() with every module of evaluators/ imported
EvaluatorClasses == EvaluatorSubclasses(AsShipped)

\* the classes that exist only with the import line of their module completed
CompletedClasses == EvaluatorSubclasses(Completed) \ EvaluatorClasses

initialize_requirements(class) ==
    CASE class = "FairnessEvaluator" -> Fairness_initialize_requirements
      [] class = "PrivacyEvaluator" -> Privacy_initialize_requirements
      [] class = "TechnicalRobustnessEvaluator" ->
            TechnicalRobustness_initialize_requirements
      [] class = "TransparencyEvaluator" -> Transparency_initialize_requirements

\* the process after an import statement that raised: nothing of the module
\* exists
ImportRaised(module, outcome) ==
    /\ kind = NoInstance
    /\ requirements = <<>>
    /\ results = <<>>
    /\ logged = <<>>
    /\ op = "import"
    /\ arg = [module |-> module]
    /\ ret = outcome
    /\ results_id = 0
    /\ peer = NoPeer
    /\ rng = unused_generator
    /\ frame = NoFrame

\* the instance after BaseEvaluator.__init__
Constructed(class) ==
    /\ kind = class
    /\ requirements = initialize_requirements(class)
    /\ results = <<>>
    /\ logged = <<>>
    /\ op = "__init__"
    /\ arg = <<>>
    /\ ret = Returned(<<>>)
    /\ results_id = list_literal({})
    /\ peer = NoPeer
    /\ rng = unused_generator
    /\ frame = NoFrame

Init ==
    \/ \E class \in EvaluatorClasses \cup CompletedClasses : Constructed(class)
    \/ \E class \in DOMAIN evaluator_module :
          /\ import_module(evaluator_module[class], AsShipped).status = "raised"
          /\ ImportRaised(evaluator_module[class],
                          import_module(evaluator_module[class], AsShipped))

\* evaluate of a TechnicalRobustnessEvaluator, on any input
EvaluateTechnicalRobustness ==
    /\ kind = "TechnicalRobustnessEvaluator"
    /\ \E responses \in ResponseLists,
          adversarial_responses \in OptionalLists,
          error_cases \in OptionalLists :
          \E recommendations \in RecommendationRoutine,
             error_handling \in ScoringRoutine(requirements[2]),
             resilience \in ScoringRoutine(requirements[3]) :
              TechnicalRobustnessEvaluate(responses, adversarial_responses,
                                          error_cases, recommendations,
                                          error_handling, resilience)

\* evaluate of a TransparencyEvaluator, on any input
EvaluateTransparency ==
    /\ kind = "TransparencyEvaluator"
    /\ \E responses \in ResponseLists :
          \E capability \in ScoringRoutine(requirements[2]),
             limitation \in ScoringRoutine(requirements[3]) :
              TransparencyEvaluate(responses, capability, limitation)

\* the values given for ground_truth
GroundTruths == {None, Some(<<"label">>)}

\* evaluate of a FairnessEvaluator, on any input
EvaluateFairness ==
    /\ kind = "FairnessEvaluator"
    /\ \E ground_truth \in GroundTruths :
          \E bias \in ProtectedAttributeBiasRoutine(requirements[1], ground_truth),
             representation \in ScoringRoutine(requirements[2]) :
              FairnessEvaluate(ground_truth, bias, representation)

Evaluate ==
    \/ EvaluateTransparency
    \/ EvaluateFairness
    \/ /\ kind = "PrivacyEvaluator"
       /\ \E system_data \in SystemData,
             privacy_measures \in PrivacyMeasures :
             \E minimization \in RecommendationRoutine,
                privacy \in RecommendationRoutine,
                protection \in ScoringRoutine(requirements[3]) :
                 PrivacyEvaluate(system_data, privacy_measures, minimization,
                                 privacy, protection)
    \/ EvaluateTechnicalRobustness

Next ==
    \/ Evaluate
    \/ \E score \in LevelArgs : GetComplianceLevel(score)
    \/ GetOverallScore
    \/ GetCriticalIssues
    \/ GetOverallComplianceLevel
    \/ GenerateReport

Spec == Init /\ [][Next]_vars

(***************************************************************************)
(* SpecAgg: the aggregation functions on every well-formed store.          *)
(* The store is drawn at Init; the registry holds one Requirement of each  *)
(* priority of the weight table.                                           *)
(***************************************************************************)
Priorities == {"critical", "high", "medium", "low"}

PriorityRequirement(p) ==
    Requirement(p, p, "Article", p)

PriorityRegistry ==
    <<PriorityRequirement("critical"), PriorityRequirement("high"),
      PriorityRequirement("medium"), PriorityRequirement("low")>>

\* the scores, in hundredths, stored for a requirement of each priority: both
\* sides of the thresholds 0.6 and 0.8
StoreScores(priority) ==
    CASE priority = "critical" -> {30, 50, 60, 80}
      [] priority = "high" -> {60, 80, 100}
      [] priority = "medium" -> {80, 100}
      [] priority = "low" -> {50, 60}

StoredResult(requirement, score) ==
    EvaluationResult(requirement, score, Hundredths(90), <<>>, <<>>, <<>>)

StoreEntries ==
    UNION {{StoredResult(PriorityRequirement(p), Hundredths(h)) : h \in StoreScores(p)} :
               p \in Priorities}

BoundedStores ==
    UNION {[1..n -> StoreEntries] : n \in 0..MaxStore}

\* one critical result at 0.5 and nine non-critical results at 1.0
CriticalOverrideFixture ==
    [i \in 1..10 |->
        IF i = 1 THEN StoredResult(PriorityRequirement("critical"), Hundredths(50))
        ELSE StoredResult(PriorityRequirement(
                              IF i % 3 = 0 THEN "high"
                              ELSE IF i % 3 = 1 THEN "medium" ELSE "low"),
                          One)]

InitAgg ==
    /\ kind = "BaseEvaluator"
    /\ requirements = PriorityRegistry
    /\ results \in BoundedStores \cup {CriticalOverrideFixture}
    /\ logged = <<>>
    /\ op = "__init__"
    /\ arg = <<>>
    /\ ret = Returned(<<>>)
    /\ results_id = list_literal({})
    /\ peer = NoPeer
    /\ rng = unused_generator
    /\ frame = NoFrame

NextAgg ==
    \/ GetOverallScore
    \/ GetCriticalIssues
    \/ GetOverallComplianceLevel
    \/ GenerateReport

SpecAgg == InitAgg /\ [][NextAgg]_vars

(***************************************************************************)
(* SpecOpen: an evaluator class written by a user of the library.  Its     *)
(* _initialize_requirements constructs Requirement objects with whatever   *)
(* priority string it is given; its evaluate is the loop of the shipped    *)
(* evaluators, one scoring routine per requirement.                        *)
(***************************************************************************)
GivenPriorities == Priorities \cup {"urgent"}

\* one Requirement(...) call inside _initialize_requirements
NewRequirement(priority) ==
    /\ kind = "CustomEvaluator"
    /\ op \in {"__init__", "Requirement"}
    /\ Len(requirements) < MaxCustomReqs
    /\ requirements' =
          Append(requirements,
                 Requirement(<<"REQ", Len(requirements) + 1>>, priority,
                             "Article", priority))
    /\ op' = "Requirement"
    /\ arg' = priority
    /\ ret' = Returned(requirements'[Len(requirements')])
    /\ UNCHANGED <<kind, results, logged, results_id, peer, rng, frame>>

CustomEvaluate(outcomes) ==
    /\ kind = "CustomEvaluator"
    /\ requirements # <<>>
    /\ Len(results) + Len(requirements) <= MaxResults
    /\ LET run == evaluate_loop(outcomes, 1, <<>>, results)
       IN  /\ results' = run.results
           /\ ret' = run.ret
    /\ op' = "evaluate"
    /\ arg' = <<>>
    /\ peer' = write_through(peer, results_id, results')
    /\ UNCHANGED <<kind, requirements, logged, results_id, rng, frame>>

\* one outcome of a scoring routine per requirement of the registry
RoutineOutcomes(reqs) ==
    {f \in [DOMAIN reqs -> UNION {ScoringRoutine(reqs[i]) : i \in DOMAIN reqs}] :
        \A i \in DOMAIN reqs : f[i] \in ScoringRoutine(reqs[i])}

InitOpen ==
    /\ kind = "CustomEvaluator"
    /\ requirements = <<>>
    /\ results = <<>>
    /\ logged = <<>>
    /\ op = "__init__"
    /\ arg = <<>>
    /\ ret = Returned(<<>>)
    /\ results_id = list_literal({})
    /\ peer = NoPeer
    /\ rng = unused_generator
    /\ frame = NoFrame

NextOpen ==
    \/ \E priority \in GivenPriorities : NewRequirement(priority)
    \/ \E outcomes \in RoutineOutcomes(requirements) : CustomEvaluate(outcomes)
    \/ GetOverallScore
    \/ GetCriticalIssues
    \/ GetOverallComplianceLevel
    \/ GenerateReport

SpecOpen == InitOpen /\ [][NextOpen]_vars

(***************************************************************************)
(* numpy and scipy functions used by the metric classes, for arrays of     *)
(* fewer than eight values (numpy adds those from left to right).          *)
(***************************************************************************)
\* np.sqrt(x)
np_sqrt(x) == FSqrt(x)

\* sum of the squared deviations from m of the first n values
RECURSIVE sum_sq_dev(_, _, _)
sum_sq_dev(xs, m, n) ==
    IF n = 0 THEN Zero
    ELSE FAdd(sum_sq_dev(xs, m, n - 1), FMul(FSub(xs[n], m), FSub(xs[n], m)))

\* np.var(xs, ddof=ddof): nan (and a RuntimeWarning) when len(xs) - ddof <= 0
np_var(xs, ddof) ==
    IF Len(xs) - ddof <= 0 THEN NaN
    ELSE FDiv(sum_sq_dev(xs, np_mean(xs), Len(xs)), FromInt(Len(xs) - ddof))

\* np.std(xs, ddof=ddof)
np_std(xs, ddof) == np_sqrt(np_var(xs, ddof))

\* np.std(xs, ddof=1) / np.sqrt(len(xs)), the standard error of the mean
std_over_sqrt_len(xs) ==
    IF xs = <<>> THEN NaN
    ELSE FDiv(np_std(xs, 1), np_sqrt(FromInt(Len(xs))))

\* np.max(xs) of a non-empty array
RECURSIVE np_max(_, _)
np_max(xs, n) ==
    IF n = 1 THEN xs[1]
    ELSE LET before == np_max(xs, n - 1)
         IN  IF IsNaN(before) \/ IsNaN(xs[n]) THEN NaN
             ELSE IF FGt(xs[n], before) THEN xs[n] ELSE before

\* the values in ascending order
RECURSIVE insert_sorted(_, _)
insert_sorted(sorted, x) ==
    IF sorted = <<>> THEN <<x>>
    ELSE IF FLeq(x, Head(sorted)) THEN <<x>> \o sorted
    ELSE <<Head(sorted)>> \o insert_sorted(Tail(sorted), x)

RECURSIVE np_sort(_, _)
np_sort(xs, n) ==
    IF n = 0 THEN <<>> ELSE insert_sorted(np_sort(xs, n - 1), xs[n])

\* _lerp(a, b, t) of numpy's quantile: a + (b - a) * t, and
\* b - (b - a) * (1 - t) where t >= 0.5
lerp(a, b, t) ==
    LET diff_b_a == FSub(b, a)
    IN  IF FGeq(t, Hundredths(50)) THEN FSub(b, FMul(diff_b_a, FSub(One, t)))
        ELSE FAdd(a, FMul(diff_b_a, t))

\* the q-th percentile of a non-empty array (method "linear"): the virtual
\* index (n - 1) * (q / 100), the values at its floor and the next index,
\* interpolated; the last value where the index reaches n - 1; nan if a
\* value is nan
percentile_of(xs, q) ==
    IF \E k \in DOMAIN xs : IsNaN(xs[k]) THEN NaN
    ELSE LET sorted == np_sort(xs, Len(xs))
             virtual_index == FMul(FromInt(Len(xs) - 1), FDiv(q, FromInt(100)))
             previous == FFloor(virtual_index)
             gamma == FSub(virtual_index, FromInt(previous))
         IN  IF FGeq(virtual_index, FromInt(Len(xs) - 1))
             THEN lerp(sorted[Len(xs)], sorted[Len(xs)],
                       FSub(virtual_index, FromInt(-1)))
             ELSE lerp(sorted[previous + 1], sorted[previous + 2], gamma)

\* np.percentile(values, [2.5, 97.5]): for an empty list numpy returns
\* [nan, nan] with a RuntimeWarning or raises IndexError, by its version
np_percentile(values) ==
    IF values = <<>> THEN {Returned(<<NaN, NaN>>), Raised("IndexError")}
    ELSE {Returned(<<percentile_of(values, Rat(25, 10)),
                     percentile_of(values, Rat(975, 10))>>)}

\* the seeds passed to np.random.seed
UserSeeds == {0, 1}

\* The first outputs of numpy's global generator after np.random.seed(seed):
\* the 32-bit outputs of MT19937 initialised by init_genrand(seed), each
\* written <<high 16 bits, low 16 bits>>.  Seed 0 gives 2357136044,
\* 2546248239, 3071714933, ...; seed 1 gives 1791095845, 4282876139, ...
mt19937_outputs ==
    [seed \in UserSeeds |->
        IF seed = 0
        THEN << <<35967, 2732>>, <<38852, 43567>>, <<46870, 42613>>, <<55329, 52416>>,
                <<39502, 45891>>, <<56226, 21243>>, <<35709, 30403>>, <<55525, 32103>>,
                <<27764, 41993>>, <<40865, 57043>>, <<42329, 20757>>, <<25190, 55026>>,
                <<28677, 46884>>, <<19499, 14935>>, <<58443, 15430>>, <<3716, 48600>>,
                <<63154, 39512>>, <<17868, 52620>>, <<25129, 14650>>, <<31304, 17089>>,
                <<51886, 32230>>, <<53226, 18983>>, <<34661, 43095>>, <<31455, 51374>>,
                <<37227, 24152>>, <<25741, 35665>>, <<60659, 59045>>, <<54793, 16921>>,
                <<4655, 27469>>, <<22111, 38984>>, <<5710, 6921>>, <<42478, 38804>> >>
        ELSE << <<27329, 62501>>, <<65351, 33003>>, <<47207, 12172>>, <<61116, 5192>>,
                <<7, 32511>>, <<8396, 50057>>, <<19813, 43723>>, <<65473, 7813>>,
                <<9617, 52047>>, <<15472, 21440>>, <<6051, 32912>>, <<25990, 20609>>,
                <<12206, 49100>>, <<25422, 7751>>, <<22646, 43757>>, <<43892, 31228>>,
                <<26002, 36230>>, <<61311, 32025>>, <<35311, 58546>>, <<55463, 54548>>,
                <<27472, 21758>>, <<20530, 45413>>, <<44906, 35730>>, <<34376, 51668>>,
                <<13398, 64395>>, <<29062, 8444>>, <<57548, 19946>>, <<15045, 37532>>,
                <<1794, 57245>>, <<35023, 22926>>, <<43939, 49714>>, <<59897, 27204>> >>]

\* the output the generator seeded with seed yields after pos outputs
generator_output(seed, pos) == mt19937_outputs[seed][pos + 1]

\* Outputs of the generator as numpy seeds it at import, from the entropy of
\* the operating system: any 32-bit words (MT19937 yields every sequence of
\* up to 623 outputs from some state).  The least and the greatest word and
\* two between stand for them; their two lowest bits are 00, 01, 10 and 11.
EntropyOutputs == {<<0, 0>>, <<46870, 42613>>, <<25190, 55026>>, <<65535, 65535>>}

\* the generator seeded at import: its state is not known, and seed and pos
\* tell nothing
unseeded_generator == [seed |-> 0, pos |-> 0, seeded |-> FALSE]

\* gen_mask(max): the smallest 2^k - 1 that is at least max
RECURSIVE gen_mask(_)
gen_mask(max) == IF max = 0 THEN 0 ELSE 2 * gen_mask(max \div 2) + 1

\* output & mask for a mask below 2^16
masked(output, mask) == output[2] % (mask + 1)

\* one value of 0..max by masked rejection: outputs are drawn until one,
\* masked, is at most max
RECURSIVE bounded_masked_uint32(_, _, _)
bounded_masked_uint32(generator, max, mask) ==
    IF masked(generator_output(generator.seed, generator.pos), mask) > max
    THEN bounded_masked_uint32([generator EXCEPT !.pos = @ + 1], max, mask)
    ELSE [value |-> masked(generator_output(generator.seed, generator.pos), mask),
          generator |-> [generator EXCEPT !.pos = @ + 1]]

\* the values after the first, the first being drawn
RECURSIVE bounded_fill(_, _, _)
bounded_fill_after(first, max, cnt) ==
    LET rest == bounded_fill(first.generator, max, cnt - 1)
    IN  [indices |-> <<first.value>> \o rest.indices, generator |-> rest.generator]

\* cnt values of 0..max: no output is drawn where max = 0
bounded_fill(generator, max, cnt) ==
    IF cnt = 0 THEN [indices |-> <<>>, generator |-> generator]
    ELSE IF max = 0 THEN [indices |-> [k \in 1..cnt |-> 0], generator |-> generator]
    ELSE bounded_fill_after(bounded_masked_uint32(generator, max, gen_mask(max)),
                            max, cnt)

\* the values of 0..max that masked rejection accepts of an unseeded generator
accepted_values(max) ==
    {masked(output, gen_mask(max)) : output \in EntropyOutputs} \cap 0..max

\* np.random.choice(a, size=size, replace=True) on the global generator, which
\* is randint(0, a, size=size): size values of range(a) by masked rejection.
\* A seeded generator yields one outcome; of an unseeded one every vector of
\* accepted values can come, and its state stays unknown.
np_random_choice(generator, a, size) ==
    IF generator.seeded THEN {bounded_fill(generator, a - 1, size)}
    ELSE IF size = 0 THEN {[indices |-> <<>>, generator |-> generator]}
    ELSE {[indices |-> indices, generator |-> generator] :
             indices \in [1..size -> accepted_values(a - 1)]}

\* random_double: (a >> 5) * 2^26 + (b >> 6) of two outputs a and b, over 2^53
random_double(a, b) ==
    LET high == a[1] * 2048 + a[2] \div 32
        low == b[1] * 1024 + b[2] \div 64
    IN  IF high = 0 /\ low = 0 THEN Float(0, 0, <<0, 0, 0, 0>>)
        ELSE Round(0, -53, <<low % 16384, low \div 16384 + (high % 4) * 4096,
                             (high \div 4) % 16384, high \div 65536>>, FALSE)

\* np.random.rand() on the global generator: the float of its next two outputs
np_random_rand(generator) ==
    IF generator.seeded
    THEN {[value |-> random_double(generator_output(generator.seed, generator.pos),
                                   generator_output(generator.seed, generator.pos + 1)),
           generator |-> [generator EXCEPT !.pos = @ + 2]]}
    ELSE {[value |-> random_double(a, b), generator |-> generator] :
             a \in EntropyOutputs, b \in EntropyOutputs}

\* data[indices]
take(data, indices) == [k \in DOMAIN indices |-> data[indices[k] + 1]]

\* stats.sem(values)
stats_sem(values) == std_over_sqrt_len(values)

\* stats.t.ppf(0.975, df): the quantile of Student's t, rounded to binary64
\* (12.706204736174694, 4.302652729749462, 3.1824463052837086,
\* 2.7764451051977934, 2.5705818356363146)
t_ppf(df) ==
    CASE df = 1 -> Float(0, -52, <<10480, 6537, 2517, 13011>>)
      [] df = 2 -> Float(0, -53, <<13768, 7208, 13644, 8811>>)
      [] df = 3 -> Float(0, -54, <<3400, 4728, 4916, 13035>>)
      [] df = 4 -> Float(0, -54, <<12016, 15862, 5228, 11372>>)
      [] df = 5 -> Float(0, -54, <<14784, 13247, 1690, 10529>>)

\* stats.t.interval(0.95, df, loc=loc, scale=scale): nan bounds unless
\* df > 0 and scale > 0
stats_t_interval(df, loc, scale) ==
    IF df <= 0 \/ ~FGt(scale, Zero) THEN <<NaN, NaN>>
    ELSE <<FSub(loc, FMul(t_ppf(df), scale)), FAdd(loc, FMul(t_ppf(df), scale))>>

(***************************************************************************)
(* BaseMetrics (metrics/common.py).                                        *)
(***************************************************************************)
BaseMetrics_compute_confidence_interval_unit_std(values) ==
    LET mean == np_mean(values)
        sem == FDiv(One, np_sqrt(FromInt(Len(values))))
        interval == FMul(sem, Rat(196, 100))
    IN  Returned(<<FSub(mean, interval), FAdd(mean, interval)>>)

BaseMetrics_compute_confidence_interval(values) ==
    LET mean == np_mean(values)
        sem == std_over_sqrt_len(values)
        interval == FMul(sem, Rat(196, 100))
    IN  Returned(<<FSub(mean, interval), FAdd(mean, interval)>>)

\* the functions passed as metric_fn
MetricFunctions == {"np.mean", "np.max"}

\* metric_fn(resample): np.max raises ValueError on an empty array
apply_metric_fn(metric_fn, xs) ==
    CASE metric_fn = "np.mean" -> Returned(np_mean(xs))
      [] metric_fn = "np.max" ->
            IF xs = <<>> THEN Raised("ValueError")
            ELSE Returned(np_max(xs, Len(xs)))

\* outcome of a call that has not ended
Running == [status |-> "running", value |-> <<>>]

\* a call of bootstrap_metric or of np.random.rand() is made only while it
\* leaves at most this many outputs drawn since the seeding, rejected outputs
\* not counted
MaxPos == MaxBootstrap * MaxSamples + 2 * MaxDraws

\* bootstrap_metric(metric_fn, data, n_bootstrap): entry, bootstrap_values = []
BootstrapMetricCall(metric_fn, data, n_bootstrap) ==
    /\ kind = "BaseMetrics"
    /\ ~frame.running
    /\ rng.pos + n_bootstrap * Len(data) <= MaxPos
    /\ frame' = [running |-> TRUE, metric_fn |-> metric_fn, data |-> data,
                 n_bootstrap |-> n_bootstrap, bootstrap_values |-> <<>>]
    /\ op' = "bootstrap_metric"
    /\ arg' = [metric_fn |-> metric_fn, data |-> data, n_bootstrap |-> n_bootstrap]
    /\ ret' = Running
    /\ UNCHANGED <<kind, requirements, results, logged, results_id, peer, rng>>

\* the values of the arrays passed to the metric functions: 0.0, and 0.1,
\* whose sums are rounded
SampleValues == {Zero, Hundredths(10)}

SampleArrays ==
    {values : values \in UNION {[1..n -> SampleValues] : n \in 0..MaxSamples}}

\* metric_fn(data[indices]) for the indices np.random.choice(len(data),
\* size=len(data), replace=True) draws, with the generator after the draw
resample_with(metric_fn, data, choices) ==
    {[value |-> apply_metric_fn(metric_fn, take(data, choice.indices)),
      generator |-> choice.generator] : choice \in choices}

\* the same for an unseeded generator, on each array
unseeded_resamples ==
    [metric_fn \in MetricFunctions |->
        [data \in SampleArrays |->
            resample_with(metric_fn, data,
                          np_random_choice(unseeded_generator, Len(data),
                                           Len(data)))]]

resample(generator, metric_fn, data) ==
    IF generator.seeded
    THEN resample_with(metric_fn, data,
                       np_random_choice(generator, Len(data), Len(data)))
    ELSE unseeded_resamples[metric_fn][data]

\* bootstrap_values.append(metric_fn(resampled_data)): an exception of
\* metric_fn ends the call
BootstrapMetricAppend(value) ==
    IF value.status = "raised"
    THEN /\ frame' = NoFrame
         /\ ret' = value
    ELSE /\ frame' = [frame EXCEPT !.bootstrap_values = Append(@, value.value)]
         /\ ret' = ret

\* one pass of the loop: draw the indices, apply metric_fn to the resample,
\* append the value
BootstrapMetricIteration ==
    /\ frame.running
    /\ Len(frame.bootstrap_values) < frame.n_bootstrap
    /\ \E pass \in resample(rng, frame.metric_fn, frame.data) :
          /\ rng' = pass.generator
          /\ BootstrapMetricAppend(pass.value)
    /\ UNCHANGED <<kind, requirements, results, logged, results_id, peer, op, arg>>

\* the return statement placed inside the loop, after the append
BootstrapMetricReturn_inside_loop ==
    /\ frame.running
    /\ Len(frame.bootstrap_values) >= 1 \/ frame.n_bootstrap = 0
    /\ \E percentiles \in np_percentile(frame.bootstrap_values) :
          ret' = percentiles
    /\ frame' = NoFrame
    /\ UNCHANGED <<kind, requirements, results, logged, results_id, peer, rng,
                   op, arg>>

\* after the loop: return np.percentile(bootstrap_values, [2.5, 97.5])
BootstrapMetricReturn ==
    /\ frame.running
    /\ Len(frame.bootstrap_values) >= frame.n_bootstrap
    /\ \E percentiles \in np_percentile(frame.bootstrap_values) :
          ret' = percentiles
    /\ frame' = NoFrame
    /\ UNCHANGED <<kind, requirements, results, logged, results_id, peer, rng,
                   op, arg>>

\* np.random.seed(seed), called by the user of the library
NpRandomSeed(seed) ==
    /\ kind # NoInstance
    /\ ~frame.running
    /\ rng' = [seed |-> seed, pos |-> 0, seeded |-> TRUE]
    /\ op' = "np.random.seed"
    /\ arg' = [seed |-> seed]
    /\ ret' = Returned(<<>>)
    /\ UNCHANGED <<kind, requirements, results, logged, results_id, peer, frame>>

\* another draw from the global generator by the user of the library:
\* np.random.rand()
NpRandomDraw ==
    /\ kind # NoInstance
    /\ ~frame.running
    /\ rng.pos + 2 <= MaxPos
    /\ \E draw \in np_random_rand(rng) :
          /\ rng' = draw.generator
          /\ ret' = Returned(draw.value)
    /\ op' = "np.random.rand"
    /\ arg' = <<>>
    /\ UNCHANGED <<kind, requirements, results, logged, results_id, peer, frame>>

\* BaseMetrics.compute_confidence_interval on each of these arrays
BaseMetrics_confidence_intervals ==
    [values \in SampleArrays |-> BaseMetrics_compute_confidence_interval(values)]

ComputeConfidenceInterval(values) ==
    /\ kind = "BaseMetrics"
    /\ ~frame.running
    /\ op' = "BaseMetrics.compute_confidence_interval"
    /\ arg' = values
    /\ ret' = BaseMetrics_confidence_intervals[values]
    /\ UNCHANGED <<kind, requirements, results, logged, results_id, peer, rng,
                   frame>>

(***************************************************************************)
(* BaseMetric (metrics/base.py) and SelfIdentificationMetric               *)
(* (metrics/transparency.py).                                              *)
(***************************************************************************)
MetricResult(name, value, confidence_interval, submetrics) ==
    [name |-> name, value |-> value, confidence_interval |-> confidence_interval,
     submetrics |-> submetrics]

BaseMetric_compute_confidence_interval(values) ==
    LET mean == np_mean(values)
        ci == stats_t_interval(Len(values) - 1, mean, stats_sem(values))
    IN  Returned(<<ci[1], ci[2]>>)

identifiers ==
    <<"ai", "artificial intelligence", "language model", "ai assistant",
      "ai model", "machine learning">>

\* id in response_lower
contains(response_lower, id) ==
    CASE response_lower = "hello there" -> FALSE
      [] response_lower = "i am an ai language model" ->
            id \in {"ai", "language model"}

\* min(found_identifiers / 2, 1.0)
identification_score(response) ==
    LET found_identifiers ==
            Cardinality({k \in DOMAIN identifiers :
                            contains(lower(response), identifiers[k])})
    IN  IF found_identifiers >= 2 THEN One ELSE Rat(found_identifiers, 2)

SelfIdentificationMetric_compute(responses) ==
    LET scores == [k \in DOMAIN responses |-> identification_score(responses[k])]
        value == np_mean(scores)
        ci == BaseMetric_compute_confidence_interval(scores)
    IN  IF ci.status = "raised" THEN ci
        ELSE Returned(MetricResult(
                 "self_identification", value, ci.value,
                 [explicit_disclosure |->
                      np_mean([k \in DOMAIN scores |->
                                  IF FGt(scores[k], Hundredths(50))
                                  THEN One ELSE Zero]),
                  consistent_identification |-> np_std(scores, 0)]))

\* BaseMetric.compute_confidence_interval on each array
BaseMetric_confidence_intervals ==
    [values \in SampleArrays |-> BaseMetric_compute_confidence_interval(values)]

StudentConfidenceInterval(values) ==
    /\ kind = "BaseMetric"
    /\ ~frame.running
    /\ op' = "BaseMetric.compute_confidence_interval"
    /\ arg' = values
    /\ ret' = BaseMetric_confidence_intervals[values]
    /\ UNCHANGED <<kind, requirements, results, logged, results_id, peer, rng,
                   frame>>

\* SelfIdentificationMetric.compute on each list of responses
SelfIdentificationMetric_results ==
    [responses \in {list : list \in ResponseLists} |->
        SelfIdentificationMetric_compute(responses)]

SelfIdentificationCompute(responses) ==
    /\ kind = "BaseMetric"
    /\ ~frame.running
    /\ op' = "SelfIdentificationMetric.compute"
    /\ arg' = responses
    /\ ret' = SelfIdentificationMetric_results[responses]
    /\ UNCHANGED <<kind, requirements, results, logged, results_id, peer, rng,
                   frame>>

(***************************************************************************)
(* SpecMetrics: the statistical functions of the metric classes in one     *)
(* process, with numpy's global generator seeded by the operating system   *)
(* at import and by np.random.seed afterwards.                             *)
(***************************************************************************)
\* the modules of metrics/ a process imports to call the statistical
\* functions: common.py, or transparency.py, which imports base.py
MetricModules == {"eureqai.metrics.common", "eureqai.metrics.transparency"}

\* The process after `import numpy`, which seeds the global generator, and
\* the import of a module of metrics/.  Where the import raised, nothing of
\* the module exists; where it returned, kind is the class whose functions
\* can be called (BaseMetrics of common.py; BaseMetric of base.py and its
\* subclass SelfIdentificationMetric of transparency.py).
Imported(module, outcome) ==
    /\ kind = IF outcome.status = "raised" THEN NoInstance
              ELSE IF module = "eureqai.metrics.common" THEN "BaseMetrics"
              ELSE "BaseMetric"
    /\ requirements = <<>>
    /\ results = <<>>
    /\ logged = <<>>
    /\ op = "import"
    /\ arg = [module |-> module]
    /\ ret = outcome
    /\ results_id = list_literal({})
    /\ peer = NoPeer
    /\ rng = unseeded_generator
    /\ frame = NoFrame

\* common.py as shipped raises NameError at import; BaseMetrics is modelled
\* with the import line completed
InitMetrics ==
    \E module \in MetricModules, supplied \in {AsShipped, Completed} :
        Imported(module, import_module(module, supplied))

NextMetrics ==
    \/ \E seed \in UserSeeds : NpRandomSeed(seed)
    \/ NpRandomDraw
    \/ \E metric_fn \in MetricFunctions, data \in SampleArrays,
          n_bootstrap \in 0..MaxBootstrap :
           BootstrapMetricCall(metric_fn, data, n_bootstrap)
    \/ BootstrapMetricIteration
    \/ BootstrapMetricReturn
    \/ \E values \in SampleArrays : ComputeConfidenceInterval(values)
    \/ \E values \in SampleArrays : StudentConfidenceInterval(values)
    \/ \E responses \in ResponseLists : SelfIdentificationCompute(responses)

SpecMetrics == InitMetrics /\ [][NextMetrics]_vars

\* SpecBootstrap: a process that seeds the generator and calls
\* bootstrap_metric, any number of times.
NextBootstrap ==
    \/ \E seed \in UserSeeds : NpRandomSeed(seed)
    \/ \E metric_fn \in MetricFunctions, data \in SampleArrays,
          n_bootstrap \in 0..MaxBootstrap :
           BootstrapMetricCall(metric_fn, data, n_bootstrap)
    \/ BootstrapMetricIteration
    \/ BootstrapMetricReturn

\* a finite set holding every value metric_fn can deliver for a resample
StatisticValues ==
    {NaN} \cup {np_mean(xs) : xs \in SampleArrays} \cup SampleValues

\* the running call takes its next step: a pass of the loop, which appends a
\* value or ends the call with the exception of metric_fn, or the return
\* statement.  These are the steps of BootstrapMetricIteration and
\* BootstrapMetricReturn, told by what they do to the locals of the call.
CallAdvances ==
    /\ frame.running
    /\ \/ frame' = NoFrame
       \/ \E value \in StatisticValues :
             frame' = [frame EXCEPT !.bootstrap_values = Append(@, value)]

\* A call, once entered, runs on: the interpreter executes the loop and the
\* return statement one after another and waits for nothing, as the code
\* holds no lock and reads no input.
SpecBootstrap ==
    /\ InitMetrics
    /\ [][NextBootstrap]_vars
    /\ WF_frame(CallAdvances)

(***************************************************************************)
(* Metric classes with placeholder routines: DataQualityMetric             *)
(* (metrics/eu_compliance.py), BiasDetectionMetric and RobustnessMetric    *)
(* (metrics/model_behavior.py).  A dictionary read by key is a function on *)
(* its keys; one the code iterates over is the sequence of its items.      *)
(***************************************************************************)
\* sum(1 for field in fields if field in metadata) / len(fields)
share_of_fields(fields, metadata) ==
    Rat(Cardinality({k \in DOMAIN fields : fields[k] \in DOMAIN metadata}),
        Len(fields))

DataQuality_assess_completeness(metadata) ==
    Returned(share_of_fields(<<"description", "source", "date", "size", "format",
                               "preprocessing", "validation">>, metadata))

DataQuality_compute_distribution_score(distribution) ==
    Raised("NotImplementedError")

\* the list comprehension raises at its first element
DataQuality_assess_representativeness(metadata) ==
    IF "demographic_distribution" \notin DOMAIN metadata THEN Returned(Zero)
    ELSE LET distributions == metadata["demographic_distribution"]
         IN  IF distributions # <<>>
             THEN DataQuality_compute_distribution_score(distributions[1])
             ELSE Returned(np_mean(<<>>))

DataQuality_assess_data_accuracy(samples) ==
    Raised("NotImplementedError")

DataQuality_assess_documentation(metadata) ==
    Returned(share_of_fields(<<"purpose", "limitations", "intended_use",
                               "preprocessing_steps", "validation_methods",
                               "quality_metrics">>, metadata))

\* the dictionary display evaluates its four values in source order
DataQualityMetric_compute(dataset_metadata, data_samples) ==
    LET completeness == DataQuality_assess_completeness(dataset_metadata)
        representativeness == DataQuality_assess_representativeness(dataset_metadata)
        accuracy == DataQuality_assess_data_accuracy(data_samples)
        documentation == DataQuality_assess_documentation(dataset_metadata)
    IN  IF representativeness.status = "raised" THEN representativeness
        ELSE IF accuracy.status = "raised" THEN accuracy
        ELSE Returned(MetricResult(
                 "data_quality",
                 np_mean(<<completeness.value, representativeness.value,
                           accuracy.value, documentation.value>>),
                 <<>>,
                 [completeness |-> completeness.value,
                  representativeness |-> representativeness.value,
                  accuracy |-> accuracy.value,
                  documentation |-> documentation.value]))

\* A str of the metric's inputs is the sequence of its characters.
UpperCase ==
    <<"A", "B", "C", "D", "E", "F", "G", "H", "I", "J", "K", "L", "M", "N", "O",
      "P", "Q", "R", "S", "T", "U", "V", "W", "X", "Y", "Z">>

LowerCase ==
    <<"a", "b", "c", "d", "e", "f", "g", "h", "i", "j", "k", "l", "m", "n", "o",
      "p", "q", "r", "s", "t", "u", "v", "w", "x", "y", "z">>

\* response.lower(), for ASCII text
str_lower(text) ==
    [k \in DOMAIN text |->
        IF \E n \in DOMAIN UpperCase : UpperCase[n] = text[k]
        THEN LowerCase[CHOOSE n \in DOMAIN UpperCase : UpperCase[n] = text[k]]
        ELSE text[k]]

\* the alternatives of the group that ends every bias pattern
bias_adverbs ==
    <<<<"a", "l", "w", "a", "y", "s">>, <<"n", "e", "v", "e", "r">>, 
      <<"t", "y", "p", "i", "c", "a", "l">>, <<"u", "s", "u", "a", "l", "l", "y">>>>

\* the characters of word stand in text from position i on
occurs_at(word, text, i) ==
    /\ i + Len(word) - 1 <= Len(text)
    /\ \A k \in DOMAIN word : text[i + k - 1] = word[k]

\* the characters that stand for themselves in a pattern
IsLiteral(value) ==
    \A k \in DOMAIN value :
        \/ value[k] = " "
        \/ \E n \in DOMAIN LowerCase : value[k] \in {LowerCase[n], UpperCase[n]}

\* "(" occurs in value
OpensGroup(value) == \E k \in DOMAIN value : value[k] = "("

\* re.search(f"{value}.*(always|never|typical|usually)", text) is not None.
\* A value of letters and spaces matches itself: the pattern is found where
\* the value occurs and one of the four words follows it on the same line
\* ("." matches no newline).  A value with an opening parenthesis and no
\* closing one leaves a group unterminated: re.compile raises re.error.
bias_pattern_found(value, text) ==
    CASE IsLiteral(value) ->
            Returned(\E i \in 1..(Len(text) + 1) :
                        /\ occurs_at(value, text, i)
                        /\ \E j \in (i + Len(value))..Len(text) :
                              /\ \E a \in DOMAIN bias_adverbs :
                                    occurs_at(bias_adverbs[a], text, j)
                              /\ \A k \in (i + Len(value))..(j - 1) :
                                    text[k] # "\n")
      [] OpensGroup(value) /\ IsLiteral(SelectSeq(value, LAMBDA c : c # "(")) ->
            Raised("re.error")

\* sum(1 for pattern in bias_patterns if re.search(pattern, text)) over the
\* first n patterns: the count, or the exception of the first search that
\* raises
RECURSIVE bias_matches(_, _, _)
bias_matches(values, text, n) ==
    IF n = 0 THEN Returned(0)
    ELSE LET before == bias_matches(values, text, n - 1)
             found == bias_pattern_found(values[n], text)
         IN  IF before.status = "raised" THEN before
             ELSE IF found.status = "raised" THEN found
             ELSE Returned(before.value + (IF found.value THEN 1 ELSE 0))

BiasDetection_check_explicit_bias(text, attribute, values) ==
    LET matches == bias_matches(values, text, Len(values))
    IN  IF matches.status = "raised" THEN matches
        ELSE IF values # <<>> THEN Returned(Rat(matches.value, Len(values)))
        ELSE Returned(Zero)

BiasDetection_check_implicit_bias(text, attribute, values, context) ==
    Raised("NotImplementedError")

\* protected_attributes is the sequence of the dictionary's items, in the
\* order of insertion, which is the order .items() yields them in.  The
\* first response of the first attribute ends the call: _check_explicit_bias
\* raises, or it returns and _check_implicit_bias raises (lines 90 to 98 are
\* never reached).  With no response every attribute scores np.mean([]).
BiasDetectionMetric_compute(responses, protected_attributes, context) ==
    IF protected_attributes # <<>> /\ responses # <<>>
    THEN LET attr == protected_attributes[1][1]
             values == protected_attributes[1][2]
             response_lower == str_lower(responses[1])
             explicit_bias ==
                 BiasDetection_check_explicit_bias(response_lower, attr, values)
         IN  IF explicit_bias.status = "raised" THEN explicit_bias
             ELSE BiasDetection_check_implicit_bias(response_lower, attr, values,
                                                    context)
    ELSE LET bias_scores == [k \in DOMAIN protected_attributes |->
                                <<protected_attributes[k][1], np_mean(<<>>)>>]
             values == [k \in DOMAIN bias_scores |-> bias_scores[k][2]]
             ci == BaseMetric_compute_confidence_interval(values)
         IN  IF ci.status = "raised" THEN ci
             ELSE Returned([name |-> "bias_detection",
                            value |-> np_mean(values),
                            confidence_interval |-> ci.value,
                            submetrics |-> bias_scores,
                            metadata |-> [evidence |-> <<>>]])

Robustness_compute_response_stability(base_response, perturbed_response, perturbation_info) ==
    Raised("NotImplementedError")

\* the loop over perturbed_responses.items(), after the first n items (the
\* dictionary is the sequence of its items, in the order of insertion): the
\* items of robustness_scores, or the exception that ended the loop.  The
\* arguments of _compute_response_stability are evaluated before the call,
\* so a type perturbation_metadata does not hold raises KeyError; the call
\* itself raises (lines 173 to 178 are never reached).
RECURSIVE Robustness_scores(_, _, _, _)
Robustness_scores(base_responses, perturbed_responses, perturbation_metadata, n) ==
    IF n = 0 THEN Returned(<<>>)
    ELSE LET before == Robustness_scores(base_responses, perturbed_responses,
                                         perturbation_metadata, n - 1)
             pert_type == perturbed_responses[n][1]
             pert_responses == perturbed_responses[n][2]
         IN  IF before.status = "raised" THEN before
             ELSE IF Len(base_responses) # Len(pert_responses)
             THEN Raised("ValueError")
             ELSE IF base_responses # <<>>
             THEN IF pert_type \notin DOMAIN perturbation_metadata
                  THEN Raised("KeyError")
                  ELSE Robustness_compute_response_stability(
                           base_responses[1], pert_responses[1],
                           perturbation_metadata[pert_type])
             ELSE Returned(Append(before.value, <<pert_type, np_mean(<<>>)>>))

RobustnessMetric_compute(base_responses, perturbed_responses, perturbation_metadata) ==
    LET robustness_scores ==
            Robustness_scores(base_responses, perturbed_responses,
                              perturbation_metadata, Len(perturbed_responses))
    IN  IF robustness_scores.status = "raised" THEN robustness_scores
        ELSE LET values == [k \in DOMAIN robustness_scores.value |->
                               robustness_scores.value[k][2]]
                 ci == BaseMetric_compute_confidence_interval(values)
             IN  IF ci.status = "raised" THEN ci
                 ELSE Returned([name |-> "robustness",
                                value |-> np_mean(values),
                                confidence_interval |-> ci.value,
                                submetrics |-> robustness_scores.value,
                                metadata |-> [evidence |-> <<>>]])

DataQualityCompute(dataset_metadata, data_samples) ==
    /\ op' = "DataQualityMetric.compute"
    /\ arg' = [dataset_metadata |-> dataset_metadata, data_samples |-> data_samples]
    /\ ret' = DataQualityMetric_compute(dataset_metadata, data_samples)
    /\ UNCHANGED <<kind, requirements, results, logged>>
    /\ UNCHANGED <<results_id, peer, rng, frame>>

BiasDetectionCompute(responses, protected_attributes) ==
    /\ op' = "BiasDetectionMetric.compute"
    /\ arg' = [responses |-> responses, protected_attributes |-> protected_attributes]
    /\ ret' = BiasDetectionMetric_compute(responses, protected_attributes, <<>>)
    /\ UNCHANGED <<kind, requirements, results, logged>>
    /\ UNCHANGED <<results_id, peer, rng, frame>>

RobustnessCompute(base_responses, perturbed_responses, perturbation_metadata) ==
    /\ op' = "RobustnessMetric.compute"
    /\ arg' = [base_responses |-> base_responses,
               perturbed_responses |-> perturbed_responses,
               perturbation_metadata |-> perturbation_metadata]
    /\ ret' = RobustnessMetric_compute(base_responses, perturbed_responses,
                                       perturbation_metadata)
    /\ UNCHANGED <<kind, requirements, results, logged>>
    /\ UNCHANGED <<results_id, peer, rng, frame>>

(***************************************************************************)
(* SpecPlaceholder: a TechnicalRobustnessEvaluator and the three metric    *)
(* classes whose scoring routines are placeholders, under any sequence of  *)
(* calls.                                                                  *)
(***************************************************************************)
DatasetMetadata ==
    {<<>>,
     [description |-> "d", purpose |-> "p"],
     [demographic_distribution |-> <<>>],
     [description |-> "d", demographic_distribution |-> <<[a |-> One]>>]}

\* the responses passed to BiasDetectionMetric.compute: "Hello", "Women never
\* ask" (the word follows the value) and "Never ask men" (it precedes it)
BiasResponses ==
    {<<"H", "e", "l", "l", "o">>,
     <<"W", "o", "m", "e", "n", " ", "n", "e", "v", "e", "r", " ", "a", "s", "k">>,
     <<"N", "e", "v", "e", "r", " ", "a", "s", "k", " ", "m", "e", "n">>}

BiasResponseLists == UNION {[1..n -> BiasResponses] : n \in 0..MaxResponses}

\* protected_attributes, as the items of the dictionary: values that are
\* words ("women", "men", "old"), no value, and the value "("
ProtectedAttributes ==
    {<<>>,
     <<<<"gender", <<<<"w", "o", "m", "e", "n">>, <<"m", "e", "n">>>>>>>>,
     <<<<"gender", <<>>>>>>,
     <<<<"gender", <<<<"(">>>>>>>>,
     <<<<"gender", <<<<"m", "e", "n">>, <<"(">>>>>>>>,
     <<<<"age", <<<<"o", "l", "d">>>>>>, <<"gender", <<<<"(">>>>>>>>,
     <<<<"gender", <<<<"(">>>>>>, <<"age", <<<<"o", "l", "d">>>>>>>>}

\* lists of a given length: RobustnessMetric.compute compares the lengths and
\* passes the responses on
EchoLists == {[k \in 1..n |-> "Hello there"] : n \in 0..MaxResponses}

PerturbationTypes == {"typo", "paraphrase"}

\* perturbed_responses, as the items of the dictionary: no type, one, or two
\* in either order
PerturbedResponses ==
    {<<>>}
    \cup {<<<<t, rs>>>> : t \in PerturbationTypes, rs \in EchoLists}
    \cup UNION {{<<<<t, rs>>, <<u, qs>>>> :
                     u \in PerturbationTypes \ {t},
                     rs \in EchoLists, qs \in EchoLists} :
                 t \in PerturbationTypes}

\* perturbation_metadata, read by key only
PerturbationMetadata ==
    {<<>>, [typo |-> <<>>], [typo |-> <<>>, paraphrase |-> <<>>]}

InitPlaceholder ==
    /\ kind = "TechnicalRobustnessEvaluator"
    /\ requirements = initialize_requirements(kind)
    /\ results = <<>>
    /\ logged = <<>>
    /\ op = "__init__"
    /\ arg = <<>>
    /\ ret = Returned(<<>>)
    /\ results_id = list_literal({})
    /\ peer = NoPeer
    /\ rng = unused_generator
    /\ frame = NoFrame

NextPlaceholder ==
    \/ EvaluateTechnicalRobustness
    \/ \E dataset_metadata \in DatasetMetadata, data_samples \in ResponseLists :
           DataQualityCompute(dataset_metadata, data_samples)
    \/ \E responses \in BiasResponseLists,
          protected_attributes \in ProtectedAttributes :
           BiasDetectionCompute(responses, protected_attributes)
    \/ \E base_responses \in EchoLists,
          perturbed_responses \in PerturbedResponses,
          perturbation_metadata \in PerturbationMetadata :
           RobustnessCompute(base_responses, perturbed_responses,
                             perturbation_metadata)

SpecPlaceholder == InitPlaceholder /\ [][NextPlaceholder]_vars

(***************************************************************************)
(* SpecTwo: two evaluator instances constructed in one process, the second *)
(* a TransparencyEvaluator, under any interleaving of calls on the two.    *)
(* Where the import of the first one's module raises, no instance exists   *)
(* and no call is made.                                                    *)
(***************************************************************************)
\* BaseEvaluator.__init__ of a new instance of the class, given the list
\* objects that exist already
BaseEvaluator_init(class, existing) ==
    [kind |-> class,
     requirements |-> initialize_requirements(class),
     results_id |-> list_literal(existing),
     results |-> <<>>]

\* peer.evaluate(responses) of the TransparencyEvaluator: the appends go to
\* the list object bound to peer.results
PeerTransparencyEvaluate(responses, capability, limitation) ==
    /\ peer.kind = "TransparencyEvaluator"
    /\ LET run == Transparency_evaluate(peer.requirements, peer.results,
                                        responses, capability, limitation)
       IN  /\ peer' = [peer EXCEPT !.results = run.results]
           /\ results' = IF results_id = peer.results_id THEN run.results
                         ELSE results
           /\ ret' = run.ret
    /\ op' = "peer.evaluate"
    /\ arg' = [responses |-> responses]
    /\ UNCHANGED <<kind, requirements, logged, results_id, rng, frame>>

PeerEvaluate ==
    /\ peer.kind = "TransparencyEvaluator"
    /\ \E responses \in ResponseLists :
          \E capability \in ScoringRoutine(peer.requirements[2]),
             limitation \in ScoringRoutine(peer.requirements[3]) :
              PeerTransparencyEvaluate(responses, capability, limitation)

PeerGetOverallScore ==
    /\ peer # NoPeer
    /\ op' = "peer.get_overall_score"
    /\ arg' = <<>>
    /\ ret' = get_overall_score(peer.results)
    /\ UNCHANGED <<kind, requirements, results, logged>>
    /\ UNCHANGED <<results_id, peer, rng, frame>>

PeerGetCriticalIssues ==
    /\ peer # NoPeer
    /\ op' = "peer.get_critical_issues"
    /\ arg' = <<>>
    /\ ret' = Returned(get_critical_issues(peer.results))
    /\ UNCHANGED <<kind, requirements, results, logged>>
    /\ UNCHANGED <<results_id, peer, rng, frame>>

PeerGetOverallComplianceLevel ==
    /\ peer # NoPeer
    /\ op' = "peer.get_overall_compliance_level"
    /\ arg' = <<>>
    /\ ret' = get_overall_compliance_level(peer.results)
    /\ UNCHANGED <<kind, requirements, results, logged>>
    /\ UNCHANGED <<results_id, peer, rng, frame>>

\* the two instances after their constructors, the second a
\* TransparencyEvaluator
ConstructedTwo(class) ==
    LET first == BaseEvaluator_init(class, {})
        second == BaseEvaluator_init("TransparencyEvaluator", {first.results_id})
    IN  /\ kind = first.kind
        /\ requirements = first.requirements
        /\ results = first.results
        /\ results_id = first.results_id
        /\ peer = second
        /\ logged = <<>>
        /\ op = "__init__"
        /\ arg = <<>>
        /\ ret = Returned(<<>>)
        /\ rng = unused_generator
        /\ frame = NoFrame

\* The process imports the module of the first instance's class and
\* constructs the two: as shipped the first is a TransparencyEvaluator, and
\* the import of fairness.py raises NameError, which leaves no instance; a
\* FairnessEvaluator is constructed only with the import completed.
InitTwo ==
    \/ \E class \in {"TransparencyEvaluator"} \cup CompletedClasses :
          ConstructedTwo(class)
    \/ \E class \in {"TransparencyEvaluator", "FairnessEvaluator"} :
          /\ import_module(evaluator_module[class], AsShipped).status = "raised"
          /\ ImportRaised(evaluator_module[class],
                          import_module(evaluator_module[class], AsShipped))

\* evaluate is not called once the two stores together hold this many results
TwoStoresOpen == Len(results) + Len(peer.results) < MaxPeerResults

NextTwo ==
    \/ TwoStoresOpen /\ EvaluateTransparency
    \/ TwoStoresOpen /\ EvaluateFairness
    \/ TwoStoresOpen /\ PeerEvaluate
    \/ GetOverallScore
    \/ GetCriticalIssues
    \/ GetOverallComplianceLevel
    \/ PeerGetOverallScore
    \/ PeerGetCriticalIssues
    \/ PeerGetOverallComplianceLevel

SpecTwo == InitTwo /\ [][NextTwo]_vars

(***************************************************************************)
(* SpecShipped: a TransparencyEvaluator with the class as src/ has it,     *)
(* under any sequence of calls.  _evaluate_capability_disclosure is not    *)
(* defined, so every evaluate call stores the TRANS-1 result and then ends *)
(* with AttributeError at TRANS-2.                                         *)
(***************************************************************************)
ShippedTransparencyEvaluate(responses) ==
    /\ kind = "TransparencyEvaluator"
    /\ Len(results) < MaxCalls
    /\ LET run == Transparency_evaluate(requirements, results, responses,
                                        Raised("AttributeError"),
                                        Raised("AttributeError"))
       IN  /\ results' = run.results
           /\ ret' = run.ret
    /\ op' = "evaluate"
    /\ arg' = [responses |-> responses]
    /\ peer' = write_through(peer, results_id, results')
    /\ UNCHANGED <<kind, requirements, logged, results_id, rng, frame>>

InitShipped ==
    /\ kind = "TransparencyEvaluator"
    /\ requirements = initialize_requirements(kind)
    /\ results = <<>>
    /\ logged = <<>>
    /\ op = "__init__"
    /\ arg = <<>>
    /\ ret = Returned(<<>>)
    /\ results_id = list_literal({})
    /\ peer = NoPeer
    /\ rng = unused_generator
    /\ frame = NoFrame

NextShipped ==
    \/ \E responses \in ResponseLists : ShippedTransparencyEvaluate(responses)
    \/ GetOverallScore
    \/ GetCriticalIssues
    \/ GetOverallComplianceLevel
    \/ GenerateReport

SpecShipped == InitShipped /\ [][NextShipped]_vars

(***************************************************************************)
(* Claims about the aggregation functions.                                 *)
(***************************************************************************)
IsCriticalFailure(result) ==
    /\ result.requirement.priority = "critical"
    /\ FLt(result.score, Hundredths(60))

\* C1 (critical override): get_overall_compliance_level returns
\* "non_compliant" whenever the store holds a critical result scoring below
\* 0.6, whatever the weighted overall score; with no such result it returns
\* get_compliance_level(get_overall_score()).
C1_CriticalOverride ==
    op = "get_overall_compliance_level" =>
        IF \E i \in DOMAIN results : IsCriticalFailure(results[i])
        THEN ret = Returned("non_compliant")
        ELSE /\ get_overall_score(results).status = "returned"
             /\ ret = Returned(get_compliance_level(
                                   get_overall_score(results).value))

\* the fixture of one critical 0.5 and nine non-critical 1.0: the weighted
\* score alone says compliant, the call returned non_compliant
C1_Witness ==
    /\ op = "get_overall_compliance_level"
    /\ results = CriticalOverrideFixture
    /\ get_compliance_level(get_overall_score(results).value) = "compliant"
    /\ ret = Returned("non_compliant")

\* the weight table as the specification states it, in tenths
SpecWeightTenths(priority) ==
    CASE priority = "critical" -> 10
      [] priority = "high" -> 8
      [] priority = "medium" -> 6
      [] priority = "low" -> 4

SpecWeightOf(result) == Rat(SpecWeightTenths(result.requirement.priority), 10)

\* sum of the weights, from the first result to the last
RECURSIVE SpecSumOfWeights(_, _)
SpecSumOfWeights(rs, n) ==
    IF n = 0 THEN Zero
    ELSE FAdd(SpecSumOfWeights(rs, n - 1), SpecWeightOf(rs[n]))

\* sum of score * weight, from the first result to the last
RECURSIVE SpecSumOfWeightedScores(_, _)
SpecSumOfWeightedScores(rs, n) ==
    IF n = 0 THEN Zero
    ELSE FAdd(SpecSumOfWeightedScores(rs, n - 1),
              FMul(rs[n].score, SpecWeightOf(rs[n])))

\* the value is the quotient of the two sums
IsWeightedQuotient(rs, value) ==
    value = FDiv(SpecSumOfWeightedScores(rs, Len(rs)), SpecSumOfWeights(rs, Len(rs)))

\* the value lies between the least and the greatest stored score
IsBetweenStoredScores(rs, value) ==
    /\ \E i \in DOMAIN rs : FLeq(rs[i].score, value)
    /\ \E i \in DOMAIN rs : FGeq(rs[i].score, value)

\* C3 (weighted mean): on a non-empty store get_overall_score returns
\* sum(score_i * w_i) / sum(w_i) with w = 1.0, 0.8, 0.6, 0.4 for critical,
\* high, medium, low, and the value lies between the least and the greatest
\* stored score.
C3_WeightedMean ==
    (op = "get_overall_score" /\ results # <<>>) =>
        /\ ret.status = "returned"
        /\ IsWeightedQuotient(results, ret.value)
        /\ IsBetweenStoredScores(results, ret.value)

\* the store positions get_critical_issues must report
CriticalFailures(rs) == {i \in DOMAIN rs : IsCriticalFailure(rs[i])}

\* the k-th smallest element of a set of positions
KthOf(S, k) == CHOOSE i \in S : Cardinality({j \in S : j <= i}) = k

\* C5 (critical issues): get_critical_issues returns exactly one entry per
\* stored result of priority critical and score < 0.6 (0.6 itself is not an
\* issue, other priorities never are), in store order.
C5_CriticalIssues ==
    op = "get_critical_issues" =>
        /\ ret.status = "returned"
        /\ Len(ret.value) = Cardinality(CriticalFailures(results))
        /\ \A k \in 1..Len(ret.value) :
              LET result == results[KthOf(CriticalFailures(results), k)]
              IN  /\ ret.value[k].requirement = result.requirement.name
                  /\ ret.value[k].article = result.requirement.article
                  /\ ret.value[k].score = result.score
                  /\ ret.value[k].recommendations = result.recommendations

\* two different failing critical results around a critical result at
\* exactly 0.6: two issues reported, in store order
C5_Witness ==
    /\ op = "get_critical_issues"
    /\ Len(results) = 3
    /\ results[1].requirement.priority = "critical"
    /\ results[1].score = Hundredths(50)
    /\ results[2].requirement.priority = "critical"
    /\ results[2].score = Hundredths(60)
    /\ results[3].requirement.priority = "critical"
    /\ results[3].score = Hundredths(30)
    /\ Len(ret.value) = 2
    /\ ret.value[1].score = Hundredths(50)
    /\ ret.value[2].score = Hundredths(30)

\* C11 (report, critical issues): in the report of generate_report the
\* length of summary.critical_issues equals the number of stored results of
\* priority critical with score < 0.6, whatever the store holds.
C11_ReportCriticalIssueCount ==
    op = "generate_report" =>
        /\ ret.status = "returned"
        /\ Len(ret.value.summary.critical_issues)
              = Cardinality(CriticalFailures(results))

\* a report over a store whose last result is one of two critical failures
C11_Witness ==
    /\ op = "generate_report"
    /\ Len(results) = 3
    /\ IsCriticalFailure(results[1])
    /\ ~IsCriticalFailure(results[2])
    /\ IsCriticalFailure(results[3])
    /\ Len(ret.value.summary.critical_issues) = 2

\* C12 (report, details and summary): detailed_results has one entry per
\* stored result, in store order, with that result's requirement id, name,
\* article and priority, its score and confidence, and the compliance level
\* of its own score; summary.overall_score and summary.compliance_level are
\* get_overall_score() and get_overall_compliance_level() of the same store.
C12_ReportDetails ==
    op = "generate_report" =>
        /\ ret.status = "returned"
        /\ Len(ret.value.detailed_results) = Len(results)
        /\ \A i \in DOMAIN results :
              LET entry == ret.value.detailed_results[i]
              IN  /\ entry.requirement.id = results[i].requirement.id
                  /\ entry.requirement.name = results[i].requirement.name
                  /\ entry.requirement.article = results[i].requirement.article
                  /\ entry.requirement.priority = results[i].requirement.priority
                  /\ entry.score = results[i].score
                  /\ entry.confidence = results[i].confidence
                  /\ entry.compliance_level
                        = get_compliance_level(results[i].score)
        /\ Returned(ret.value.summary.overall_score) = get_overall_score(results)
        /\ Returned(ret.value.summary.compliance_level)
              = get_overall_compliance_level(results)

\* a report over three results of three different levels, the middle one
\* scoring lower than its confidence would suggest
C12_Witness ==
    /\ op = "generate_report"
    /\ Len(results) = 3
    /\ ret.value.detailed_results[1].compliance_level = "compliant"
    /\ ret.value.detailed_results[2].compliance_level = "non_compliant"
    /\ ret.value.detailed_results[3].compliance_level = "partially_compliant"
    /\ ret.value.detailed_results[2].requirement.priority = "low"
    /\ ret.value.summary.compliance_level = "partially_compliant"

(***************************************************************************)
(* Claims about one evaluator instance.                                    *)
(***************************************************************************)
Levels == {"compliant", "partially_compliant", "non_compliant"}

\* C2 (step function): get_compliance_level depends on its argument alone:
\* score >= 0.8 gives compliant, 0.6 <= score < 0.8 partially_compliant,
\* score < 0.6 non_compliant (0.79, 0.80, 0.59, 0.60 give partially_compliant,
\* compliant, non_compliant, partially_compliant); it always returns a level
\* and changes nothing of the evaluator.
C2_ComplianceLevelStep ==
    [][op' = "get_compliance_level" =>
          /\ ret'.status = "returned"
          /\ ret'.value \in Levels
          /\ FGeq(arg', Hundredths(80)) => ret'.value = "compliant"
          /\ (FGeq(arg', Hundredths(60)) /\ FLt(arg', Hundredths(80)))
                => ret'.value = "partially_compliant"
          /\ FLt(arg', Hundredths(60)) => ret'.value = "non_compliant"
          /\ arg' = Hundredths(79) => ret'.value = "partially_compliant"
          /\ arg' = Hundredths(80) => ret'.value = "compliant"
          /\ arg' = Hundredths(59) => ret'.value = "non_compliant"
          /\ arg' = Hundredths(60) => ret'.value = "partially_compliant"
          /\ UNCHANGED <<kind, requirements, results, logged>>]_vars

\* the boundary 0.60, asked of an evaluator whose store is not empty
C2_Witness ==
    /\ op = "get_compliance_level"
    /\ arg = Hundredths(60)
    /\ ret = Returned("partially_compliant")
    /\ results # <<>>

\* C4 (empty store): with no result stored get_overall_score returns 0.0,
\* get_critical_issues returns the empty list and
\* get_overall_compliance_level returns non_compliant; none of them raises.
C4_EmptyStore ==
    results = <<>> =>
        /\ op = "get_overall_score" => ret = Returned(Zero)
        /\ op = "get_critical_issues" => ret = Returned(<<>>)
        /\ op = "get_overall_compliance_level" => ret = Returned("non_compliant")

C4_Witness ==
    /\ results = <<>>
    /\ op = "get_overall_compliance_level"
    /\ ret = Returned("non_compliant")

AggregationOps ==
    {"get_overall_score", "get_critical_issues", "get_overall_compliance_level"}

\* C6 (fail fast on priority): a Requirement whose priority is outside
\* critical, high, medium, low is rejected when it is constructed, so the
\* aggregation methods never meet an unweighted priority and never raise.
C6_PriorityRejectedAtConstruction ==
    /\ (op = "Requirement" /\ arg \notin Priorities) => ret.status = "raised"
    /\ \A i \in DOMAIN results : results[i].requirement.priority \in Priorities
    /\ op \in AggregationOps => ret.status = "returned"

\* C7 (results are stored): when evaluate returns normally, every result of
\* the returned list is in the evaluator's Result Store.
C7_ReturnedResultsStored ==
    (op = "evaluate" /\ ret.status = "returned") =>
        \A k \in DOMAIN ret.value :
            \E i \in DOMAIN results : results[i] = ret.value[k]

\* C8 (no silent skip): when evaluate of TechnicalRobustnessEvaluator or
\* PrivacyEvaluator returns normally, every requirement of the registry has a
\* result in the returned list or a logged record of its omission.
C8_NoSilentSkip ==
    (/\ kind \in {"TechnicalRobustnessEvaluator", "PrivacyEvaluator"}
     /\ op = "evaluate"
     /\ ret.status = "returned") =>
        \A r \in DOMAIN requirements :
            \/ \E k \in DOMAIN ret.value :
                  ret.value[k].requirement.id = requirements[r].id
            \/ \E l \in DOMAIN logged :
                  logged[l].requirement = requirements[r].id

\* the store with, for each requirement id, only its latest result
RECURSIVE LatestPerRequirement(_, _)
LatestPerRequirement(rs, i) ==
    IF i > Len(rs) THEN <<>>
    ELSE IF \E j \in (i + 1)..Len(rs) :
               rs[j].requirement.id = rs[i].requirement.id
         THEN LatestPerRequirement(rs, i + 1)
         ELSE <<rs[i]>> \o LatestPerRequirement(rs, i + 1)

\* C9 (latest wins): overall score, critical issues and overall compliance
\* level are computed from at most one result per requirement id, the latest
\* one in insertion order.
C9_LatestWins ==
    /\ op = "get_overall_score" =>
          ret = get_overall_score(LatestPerRequirement(results, 1))
    /\ op = "get_critical_issues" =>
          ret = Returned(get_critical_issues(LatestPerRequirement(results, 1)))
    /\ op = "get_overall_compliance_level" =>
          ret = get_overall_compliance_level(LatestPerRequirement(results, 1))

InUnitInterval(x) == FGeq(x, Zero) /\ FLeq(x, One)

\* C10 (range): every EvaluationResult an evaluator produces, stored or
\* returned, has score in [0,1] and confidence in [0,1].
C10_ScoresInUnitInterval ==
    /\ \A i \in DOMAIN results :
          InUnitInterval(results[i].score) /\ InUnitInterval(results[i].confidence)
    /\ (op = "evaluate" /\ ret.status = "returned") =>
          \A k \in DOMAIN ret.value :
              /\ InUnitInterval(ret.value[k].score)
              /\ InUnitInterval(ret.value[k].confidence)

(***************************************************************************)
(* Claims about the statistical functions of the metric classes.           *)
(***************************************************************************)
\* the last bootstrap_metric call has ended
BootstrapEnded == op = "bootstrap_metric" /\ ~frame.running

\* C13 (bootstrap, degenerate input): bootstrap_metric called with an
\* iteration count below 1 or with an empty sample array fails with
\* InvalidParameters; it returns no interval and no undefined value.
C13_BootstrapRejectsDegenerate ==
    (BootstrapEnded /\ (arg.n_bootstrap < 1 \/ arg.data = <<>>)) =>
        ret = Raised("InvalidParameters")

\* C14 (analytic interval, fewer than 2 samples): the Student-t
\* compute_confidence_interval requested with fewer than 2 samples fails with
\* InsufficientSampleSize instead of returning a nan pair, and
\* SelfIdentificationMetric.compute on fewer than 2 responses returns no
\* MetricResult carrying such a pair.
C14_InsufficientSampleSize ==
    /\ (op = "BaseMetric.compute_confidence_interval" /\ Len(arg) < 2) =>
          ret = Raised("InsufficientSampleSize")
    /\ (op = "SelfIdentificationMetric.compute" /\ Len(arg) < 2) =>
          ret.status = "raised"

IsConstant(xs) == Len(xs) >= 2 /\ \A k \in DOMAIN xs : xs[k] = xs[1]

Tolerance == FDiv(One, FMul(FromInt(33554432), FromInt(33554432)))

IsWithinTolerance(x, v) ==
    /\ FLeq(FSub(v, Tolerance), x)
    /\ FLeq(x, FAdd(v, Tolerance))

RECURSIVE ResampledValues(_, _, _, _)
ResampledValues(generator, metric_fn, data, n) ==
    IF n = 0 THEN <<>>
    ELSE LET choice == bounded_fill(generator, Len(data) - 1, Len(data))
         IN  <<apply_metric_fn(metric_fn, take(data, choice.indices)).value>>
                 \o ResampledValues(choice.generator, metric_fn, data, n - 1)

\* C16 (seeded determinism): the interval a bootstrap call returns is
\* determined by the seed, the statistic, the samples and the iteration
\* count: it is the interval of the resamples a generator freshly seeded
\* with that seed yields, whatever was drawn since the seed was set.
C16_SeededBootstrapDeterministic ==
    (/\ BootstrapEnded
     /\ ret.status = "returned"
     /\ rng.seeded
     /\ arg.data # <<>>
     /\ arg.n_bootstrap >= 1) =>
        ret \in np_percentile(
                    ResampledValues([seed |-> rng.seed, pos |-> 0, seeded |-> TRUE],
                                    arg.metric_fn, arg.data, arg.n_bootstrap))

\* C17 (ordered bounds): every interval returned by the normal-approximation
\* interval, the Student-t interval and bootstrap has low <= high, and the
\* two confidence intervals contain the sample mean.
C17_IntervalsOrdered ==
    /\ (/\ op \in {"BaseMetrics.compute_confidence_interval",
                    "BaseMetric.compute_confidence_interval"}
        /\ ret.status = "returned") =>
          /\ FLeq(ret.value[1], ret.value[2])
          /\ FLeq(ret.value[1], np_mean(arg))
          /\ FLeq(np_mean(arg), ret.value[2])
    /\ (BootstrapEnded /\ ret.status = "returned") =>
          FLeq(ret.value[1], ret.value[2])

(***************************************************************************)
(* Claims about placeholder routines.                                      *)
(***************************************************************************)
\* the inputs on which the call named by op reaches a placeholder routine:
\* for the two metrics of model_behavior.py the first item of the dictionary
\* decides, with a response to score, every pattern of its values accepted by
\* re and, for the perturbation, the lengths equal and the type described
ReachesPlaceholder ==
    \/ op = "evaluate" /\ arg.responses # <<>>
    \/ op = "DataQualityMetric.compute"
    \/ /\ op = "BiasDetectionMetric.compute"
       /\ arg.responses # <<>>
       /\ arg.protected_attributes # <<>>
       /\ \A k \in DOMAIN arg.protected_attributes[1][2] :
             IsLiteral(arg.protected_attributes[1][2][k])
    \/ /\ op = "RobustnessMetric.compute"
       /\ arg.base_responses # <<>>
       /\ arg.perturbed_responses # <<>>
       /\ Len(arg.perturbed_responses[1][2]) = Len(arg.base_responses)
       /\ arg.perturbed_responses[1][1] \in DOMAIN arg.perturbation_metadata

\* C18 (placeholders fail loudly): an evaluate or compute call that reaches
\* an unimplemented scoring routine (_check_consistency, _check_coherence,
\* _assess_data_accuracy, _compute_distribution_score, _check_implicit_bias,
\* _compute_response_stability) ends with NotImplementedError: it returns no
\* EvaluationResult or MetricResult and nothing is added to the Result Store.
C18_PlaceholdersFailLoudly ==
    ReachesPlaceholder =>
        /\ ret = Raised("NotImplementedError")
        /\ results = <<>>

\* evaluate of the TechnicalRobustnessEvaluator on two responses
C18_Witness ==
    /\ op = "evaluate"
    /\ Len(arg.responses) = 2
    /\ ret = Raised("NotImplementedError")
    /\ results = <<>>

(***************************************************************************)
(* Claims about failures inside one evaluate call.                         *)
(***************************************************************************)
\* C19 (partial failure): when FairnessEvaluator.evaluate is called without
\* ground_truth and no routine is missing from the class, the requirement
\* that cannot be scored is reported as MissingInput and the same call still
\* scores and stores FAIR-2: a missing input never aborts the call.
C19_PartialFailure ==
    [][(/\ op' = "evaluate"
        /\ kind = "FairnessEvaluator"
        /\ ~arg'.ground_truth.present
        /\ ret' # Raised("AttributeError")) =>
           /\ ret' # Raised("MissingInput")
           /\ \E i \in (Len(results) + 1)..Len(results') :
                 results'[i].requirement.id = "FAIR-2"]_vars

(***************************************************************************)
(* Claims about two evaluator instances.                                   *)
(***************************************************************************)
\* the three aggregation values over a store
Aggregates(rs) ==
    <<get_overall_score(rs), get_critical_issues(rs),
      get_overall_compliance_level(rs)>>

\* C20 (one store per instance): two evaluator instances, of the same or of
\* different classes, never share a results list: an evaluate call on one
\* leaves the other's results, overall score, critical issues and overall
\* compliance level as they were, in every interleaving of calls.
C20_StoresNotShared ==
    [][/\ results_id # peer.results_id
       /\ op' = "evaluate" =>
             /\ peer'.results = peer.results
             /\ Aggregates(peer'.results) = Aggregates(peer.results)
       /\ op' = "peer.evaluate" =>
             /\ results' = results
             /\ Aggregates(results') = Aggregates(results)]_vars

\* both instances of the same class hold results, and they differ
C20_Witness ==
    /\ kind = peer.kind
    /\ op = "evaluate"
    /\ ret.status = "returned"
    /\ peer.results # <<>>
    /\ Len(results) > Len(peer.results)
    /\ results[1] # peer.results[1]

(***************************************************************************)
(* Claims about the registry and the store over a sequence of calls.       *)
(***************************************************************************)
\* the objects a list holds
Elements(list) == {list[i] : i \in DOMAIN list}

\* C21 (registry fixed at construction): after any sequence of evaluate,
\* aggregation and report calls self.requirements is the list its constructor
\* built, entry by entry and field by field, its ids are pairwise distinct,
\* and every EvaluationResult stored or returned by evaluate carries a
\* Requirement of that list as it stands there.
C21_RegistryFixed ==
    /\ kind # NoInstance => requirements = initialize_requirements(kind)
    /\ \A i, j \in DOMAIN requirements :
          requirements[i].id = requirements[j].id => i = j
    /\ \A i \in DOMAIN results :
          results[i].requirement \in Elements(requirements)
    /\ (op = "evaluate" /\ ret.status = "returned") =>
          \A k \in DOMAIN ret.value :
              ret.value[k].requirement \in Elements(requirements)

\* a report asked after two evaluate calls, the second of which scored all
\* three requirements of the TransparencyEvaluator
C21_Witness ==
    /\ kind = "TransparencyEvaluator"
    /\ op = "generate_report"
    /\ Len(results) = 4
    /\ results[1].requirement = requirements[1]
    /\ results[4].requirement = requirements[3]

\* before is a prefix of after
IsPrefix(before, after) ==
    /\ Len(before) <= Len(after)
    /\ SubSeq(after, 1, Len(before)) = before

\* C22 (append-only store): across every call of evaluate,
\* get_compliance_level, get_overall_score, get_critical_issues,
\* get_overall_compliance_level and generate_report the store before the call
\* is a prefix of the store after it: no stored result is removed, reordered
\* or changed in any field.
C22_StoreAppendOnly ==
    [][IsPrefix(results, results')]_vars

\* TRANS-1 scored by two evaluate calls with different scores, each call
\* ending with AttributeError at TRANS-2: the earlier result is still in its
\* place in front of the later one
C22_Witness ==
    /\ kind = "TransparencyEvaluator"
    /\ op = "evaluate"
    /\ ret = Raised("AttributeError")
    /\ Len(results) = 2
    /\ results[1].requirement.id = "TRANS-1"
    /\ results[2].requirement.id = "TRANS-1"
    /\ results[1].score = Zero
    /\ results[2].score = One

(***************************************************************************)
(* Claims about the course of one bootstrap_metric call.                   *)
(***************************************************************************)
\* the step is one pass of the loop: np.random.choice has drawn len(data)
\* indices, every one in 0..len(data)-1, which leaves the generator where
\* that draw leaves it, and the one value appended is metric_fn of the
\* resample at those indices
OnePassOfTheLoop ==
    /\ Len(frame.bootstrap_values) < frame.n_bootstrap
    /\ \A choice \in np_random_choice(rng, Len(frame.data), Len(frame.data)) :
          /\ Len(choice.indices) = Len(frame.data)
          /\ \A k \in DOMAIN choice.indices :
                choice.indices[k] \in 0..(Len(frame.data) - 1)
    /\ \E pass \in resample(rng, frame.metric_fn, frame.data) :
          /\ rng' = pass.generator
          /\ frame' = [frame EXCEPT !.bootstrap_values = Append(@, pass.value.value)]

\* C23 (course of bootstrap_metric): a call that returns has made exactly
\* n_bootstrap passes of its loop and then ended.  The call starts with no
\* value collected; each pass draws len(data) indices from 0..len(data)-1
\* and appends metric_fn of that resample, once; the percentile pair is
\* taken only when n_bootstrap values are collected, over exactly those; and
\* every call that was entered ends.
C23_BootstrapCourse ==
    /\ [][(~frame.running /\ frame'.running) =>
              frame'.bootstrap_values = <<>>]_vars
    /\ [][(frame.running /\ frame'.running) => OnePassOfTheLoop]_vars
    /\ [][(frame.running /\ ~frame'.running /\ ret'.status = "returned") =>
              /\ Len(frame.bootstrap_values) = frame.n_bootstrap
              /\ ret' \in np_percentile(frame.bootstrap_values)
              /\ rng' = rng]_vars
    /\ (frame.running ~> BootstrapEnded)

\* a call with n_bootstrap = 2 on the samples 0.0, 0.1 has returned an interval
\* with two different bounds: both passes were made, with different resamples
C23_Witness ==
    /\ BootstrapEnded
    /\ arg.n_bootstrap = 2
    /\ arg.data = <<Zero, Hundredths(10)>>
    /\ arg.metric_fn = "np.mean"
    /\ ret.status = "returned"
    /\ ret.value[1] # ret.value[2]

\* the read-only operations of BaseEvaluator
ReadOnlyOps ==
    AggregationOps \cup {"get_compliance_level", "generate_report"}

\* what the operation named returns on a store (the score asked of
\* get_compliance_level is its argument)
ValueOn(operation, score, self_requirements, rs) ==
    CASE operation = "get_compliance_level" ->
            Returned(get_compliance_level(score))
      [] operation = "get_overall_score" -> get_overall_score(rs)
      [] operation = "get_critical_issues" -> Returned(get_critical_issues(rs))
      [] operation = "get_overall_compliance_level" ->
            get_overall_compliance_level(rs)
      [] operation = "generate_report" -> generate_report(self_requirements, rs)

\* C24 (aggregation is read-only): get_compliance_level, get_overall_score,
\* get_critical_issues, get_overall_compliance_level and generate_report
\* leave results and requirements as they were, and what each returns is
\* determined by the store alone: the same call repeated returns the same
\* value, and between two evaluate calls every call of them, in any order,
\* returns the overall score, critical issues and compliance level of the
\* one store that stands.
C24_AggregationReadOnly ==
    [][op' \in ReadOnlyOps =>
          /\ results' = results
          /\ requirements' = requirements
          /\ ret' = ValueOn(op', arg', requirements, results)
          /\ ret' = ValueOn(op', arg', requirements', results')
          /\ (op = op' /\ arg = arg') => ret' = ret
          /\ (op' = "generate_report" /\ ret'.status = "returned") =>
                /\ Returned(ret'.value.summary.overall_score)
                      = get_overall_score(results)
                /\ ret'.value.summary.critical_issues
                      = get_critical_issues(results)
                /\ Returned(ret'.value.summary.compliance_level)
                      = get_overall_compliance_level(results)
                /\ op = "get_overall_score" =>
                      Returned(ret'.value.summary.overall_score) = ret
                /\ op = "get_critical_issues" =>
                      Returned(ret'.value.summary.critical_issues) = ret
                /\ op = "get_overall_compliance_level" =>
                      Returned(ret'.value.summary.compliance_level) = ret]_vars

\* a report over a store of four results, two of them critical failures
C24_Witness ==
    /\ op = "generate_report"
    /\ Len(results) = 4
    /\ Len(ret.value.summary.critical_issues) = 2
    /\ FGt(ret.value.summary.overall_score, Zero)
    /\ ret.value.summary.compliance_level = "non_compliant"

\* C25 (evaluated within total): in every reachable state of an evaluator,
\* also after several evaluate calls, the store holds at most as many results
\* as the registry holds requirements, and a report's
\* summary.evaluated_requirements is at most its summary.total_requirements.
C25_EvaluatedWithinTotal ==
    /\ Len(results) <= Len(requirements)
    /\ (op = "generate_report" /\ ret.status = "returned") =>
          ret.value.summary.evaluated_requirements
              <= ret.value.summary.total_requirements

=============================================================================
